---------------------------- MODULE Spec2Model ----------------------------
(***************************************************************************)
(* Outreach-Reliability-Kit: the e-mail deliverability prober.             *)
(*                                                                         *)
(*   ork/email_check/domain_mx.py       DomainMXChecker (cache, retries)   *)
(*   ork/email_check/smtp_handshake.py  SMTPHandshakeChecker (cooldown)    *)
(*   pot/email_check/*.py, pot/cli.py   the pot variant and check_emails   *)
(*                                                                         *)
(* Text is modelled as a sequence of tokens (a token is a character, a     *)
(* byte or an opaque fragment), so that strip, decode, rstrip, lower and   *)
(* the substring tests of the code are computed and not assumed.           *)
(***************************************************************************)
EXTENDS Integers, Sequences, FiniteSets, TLC

VARIABLES
    rc_code,      \* _interpret_rcpt_response: the code argument
    rc_msg,       \* _interpret_rcpt_response: the message argument
    rc_result,    \* _interpret_rcpt_response: the value returned (None before a call)
    dns_retries,  \* DomainMXChecker(dns_retries=...): the constructor argument
    mx_cache,     \* DomainMXChecker._cache: domain -> MXLookupResult
    mx_last,      \* per domain, the result lookup returned last (None: never looked up)
    mx_call,      \* the lookup call that returned last (None before the first)
    impl,         \* which SMTPHandshakeChecker is running: "ork" or "pot"
    retry_attempts,             \* SMTPCheckerConfig.retry_attempts
    max_mx_tries,               \* SMTPCheckerConfig.max_mx_tries
    try_starttls,               \* SMTPCheckerConfig.try_starttls
    host_failure_cooldown_sec,  \* SMTPCheckerConfig.host_failure_cooldown_sec
    now,                        \* time.time()
    _host_unavailable_until,    \* SMTPHandshakeChecker._host_unavailable_until
    _host_unavailable_reason,   \* SMTPHandshakeChecker._host_unavailable_reason
    v_pc,            \* verify: "idle", "host" (loop head), "attempt", "done", "raised"
    v_target_email,  \* verify: the target_email argument
    v_mx_hosts,      \* verify: the mx_hosts argument
    v_errors,        \* verify: errors
    v_idx,           \* verify: position of host in host_candidates
    v_attempt,       \* verify: attempt
    v_result,        \* verify: the value returned (None while running)
    v_events,        \* verify: what the call did so far: skips, connects, sleeps
    v_conn,          \* verify: the last _verify_with_host call (None: none yet)
    v_empty0,        \* verify: whether the cooldown table was empty when the call started
    b_pc,        \* check_emails: "idle", "loop" (loop head), "verify", "done", "raised"
    b_emails,    \* check_emails: the emails argument
    b_i,         \* check_emails: position of email in emails
    b_mx,        \* check_emails: mx_result (None outside a verify call)
    b_results,   \* check_emails: results
    b_log,       \* check_emails: the calls made so far: lookups, verifies, sleeps
    c_script,    \* _verify_with_host: what the server and the network do at each step
    c_out,       \* _verify_with_host: what the call did and returned (None before it)
    s_errors,    \* verify, after the host loop: the notes accumulated in errors
    s_out,       \* verify, after the host loop: the result returned (None before it)
    _proc,       \* ProcessRunner._proc: the Popen object held (NoProc: None)
    _thread,     \* ProcessRunner._thread: the worker started last (NoProc: None)
    _queue,      \* ProcessRunner._queue: the closing messages not yet polled
    g_pc,        \* the GUI thread: "idle" or its position inside run() or stop()
    g_last,      \* the GUI thread: how its last run() or stop() call ended
    w_pc,        \* per worker thread, its position inside worker()
    w_handle,    \* per worker thread, the Popen object it is blocked on
    child,       \* per child process: "none" (not spawned), "alive" or "exited"
    cli_emails,  \* collect_emails: the cli_emails argument
    file_emails, \* collect_emails: the file_emails argument
    ordered,     \* collect_emails: ordered, the list built and returned
    col_pc       \* collect_emails: "idle" before the call, "done" after it

rcVars == <<rc_code, rc_msg, rc_result>>
mxVars == <<dns_retries, mx_cache, mx_last, mx_call>>
cfgVars == <<impl, retry_attempts, max_mx_tries, try_starttls, host_failure_cooldown_sec>>
tableVars == <<_host_unavailable_until, _host_unavailable_reason>>
frameVars == <<v_pc, v_target_email, v_mx_hosts, v_errors, v_idx, v_attempt, v_result,
               v_events, v_conn, v_empty0>>
smtpVars == <<cfgVars, now, tableVars, frameVars>>
batchVars == <<b_pc, b_emails, b_i, b_mx, b_results, b_log>>
connVars == <<c_script, c_out>>
sumVars == <<s_errors, s_out>>
runVars == <<_proc, _thread, _queue, g_pc, g_last, w_pc, w_handle, child>>
colVars == <<cli_emails, file_emails, ordered, col_pc>>
vars == <<rcVars, mxVars, smtpVars, batchVars, connVars, sumVars, runVars, colVars>>

None == [none |-> TRUE]

\* an exception that no except clause caught and that leaves the function
Raised == [raised |-> TRUE]

(***************************************************************************)
(* Bounds of the model.                                                    *)
(***************************************************************************)
MaxCode == 600       \* reply codes 0..MaxCode are drawn
MaxMsgLen == 2       \* length of a server reply text, in tokens
MaxMxHosts == 2      \* length of the mx_hosts argument of verify
MaxCooldown == 2     \* host_failure_cooldown_sec is drawn from 0..MaxCooldown
MaxTime == 2         \* the clock runs from 0 to MaxTime
MaxEmails == 2       \* length of the emails argument of check_emails
MaxNotes == 3        \* failed-attempt notes one host can leave in errors

(***************************************************************************)
(* Defaults of the program; a configuration value is drawn from 0 up to    *)
(* its default.                                                            *)
(***************************************************************************)
DefaultDnsRetries == 2       \* ork domain_mx.py:18  dns_retries: int = 2
DefaultRetryAttempts == 2    \* ork smtp_handshake.py:19  retry_attempts: int = 2
DEFAULT_MAX_MX_TRIES == 2    \* pot cli.py:16

(***************************************************************************)
(* Text helpers.                                                           *)
(***************************************************************************)
Whitespace == {" ", "\n"}

RECURSIVE LStrip(_)
LStrip(s) == IF s # <<>> /\ Head(s) \in Whitespace THEN LStrip(Tail(s)) ELSE s

RECURSIVE RStrip(_)
RStrip(s) ==
    IF s # <<>> /\ s[Len(s)] \in Whitespace THEN RStrip(SubSeq(s, 1, Len(s) - 1)) ELSE s

\* str.strip()
Strip(s) == LStrip(RStrip(s))

\* one byte under bytes.decode("utf-8", errors="replace")
DecodeByte(b) == IF b = "\\xff" THEN "U+FFFD" ELSE b

\* SMTPHandshakeChecker._decode: bytes are decoded, a str passes through
_decode(value) ==
    IF value.bytes
    THEN [i \in 1..Len(value.data) |-> DecodeByte(value.data[i])]
    ELSE value.data

\* models.SMTPCheckResult
SMTPCheckResult(status, detail, code) ==
    [status |-> status, detail |-> detail, code |-> code]

NoCode == -1     \* code: int | None = None

\* _interpret_rcpt_response with 552 left out of the rejected codes
_interpret_rcpt_response_no552(code, message) ==
    LET detail == Strip(<<ToString(code), " ">> \o _decode(message))
    IN  IF code \in {250, 251} THEN SMTPCheckResult("deliverable", detail, code)
        ELSE IF code \in {550, 551, 553, 554}
             THEN SMTPCheckResult("undeliverable", detail, code)
        ELSE IF code \in {450, 451, 452, 421}
             THEN SMTPCheckResult("tempfail", detail, code)
        ELSE IF code \in {530, 535} \/ code >= 500
             THEN SMTPCheckResult("unknown", <<"policy/block: ">> \o detail, code)
        ELSE SMTPCheckResult("unknown", detail, code)

\* SMTPHandshakeChecker._interpret_rcpt_response
_interpret_rcpt_response(code, message) ==
    LET detail == Strip(<<ToString(code), " ">> \o _decode(message))
    IN  IF code \in {250, 251} THEN SMTPCheckResult("deliverable", detail, code)
        ELSE IF code \in {550, 551, 552, 553, 554}
             THEN SMTPCheckResult("undeliverable", detail, code)
        ELSE IF code \in {450, 451, 452, 421}
             THEN SMTPCheckResult("tempfail", detail, code)
        ELSE IF code \in {530, 535} \/ code >= 500
             THEN SMTPCheckResult("unknown", <<"policy/block: ">> \o detail, code)
        ELSE SMTPCheckResult("unknown", detail, code)

(***************************************************************************)
(* The reply texts a server may send: bytes (what smtplib hands over) or   *)
(* str, possibly empty, possibly with white space or an undecodable byte.  *)
(***************************************************************************)
ByteTokens == {"a", " ", "\\xff"}
CharTokens == {"a", " "}

SeqsUpTo(S, n) == UNION {[1..k -> S] : k \in 0..n}

Messages ==
    {[bytes |-> TRUE, data |-> d] : d \in SeqsUpTo(ByteTokens, MaxMsgLen)}
    \cup {[bytes |-> FALSE, data |-> d] : d \in SeqsUpTo(CharTokens, MaxMsgLen)}

Codes == 0..MaxCode

InitRcptIdle ==
    /\ rc_code = 0
    /\ rc_msg = [bytes |-> TRUE, data |-> <<>>]
    /\ rc_result = None

InitRcpt ==
    /\ rc_code \in Codes
    /\ rc_msg \in Messages
    /\ rc_result = None

\* one call of _interpret_rcpt_response on the drawn reply
InterpretRcpt ==
    /\ rc_result = None
    /\ rc_result' = _interpret_rcpt_response(rc_code, rc_msg)
    /\ UNCHANGED <<rc_code, rc_msg>>
    /\ UNCHANGED <<mxVars, smtpVars, batchVars, connVars, sumVars, runVars, colVars>>

(***************************************************************************)
(* ork DomainMXChecker.                                                    *)
(*                                                                         *)
(* A domain or host name is a sequence of tokens; a name as DNS prints it  *)
(* ends with the root dot, and the null MX is the root dot alone.  The     *)
(* detail texts of the source are Russian; each stands here as one ASCII   *)
(* token, named after the source line that holds the text.                 *)
(***************************************************************************)
DetailMxFound == <<"MX records found">>                    \* domain_mx.py:74
DetailMxMissing == <<"MX records missing or invalid">>     \* domain_mx.py:72, 81
DetailDomainMissing == <<"domain missing">>                \* domain_mx.py:76
DetailNoNameservers == <<"DNS nameserver unavailable">>    \* domain_mx.py:89
DetailDnsTimeout == <<"DNS timeout during MX check">>      \* domain_mx.py:96, 101
DetailDnsError(exc) == <<"DNS error: ", exc>>              \* domain_mx.py:99

\* DomainMXChecker._non_cacheable_details
_non_cacheable_details == {DetailDnsTimeout, DetailNoNameservers}

\* models.MXLookupResult
MXLookupResult(domain, status, mx_hosts, detail) ==
    [domain |-> domain, status |-> status, mx_hosts |-> mx_hosts, detail |-> detail]

\* the exception classes of dnspython the resolver may raise, each with its bases
DnsBases(cls) ==
    CASE cls = "NXDOMAIN" -> {"NXDOMAIN", "DNSException"}
      [] cls = "NoAnswer" -> {"NoAnswer", "DNSException"}
      [] cls = "NoNameservers" -> {"NoNameservers", "DNSException"}
      [] cls = "Timeout" -> {"Timeout", "DNSException"}
      [] cls = "LifetimeTimeout" -> {"LifetimeTimeout", "Timeout", "DNSException"}
      [] cls = "YXDOMAIN" -> {"YXDOMAIN", "DNSException"}

DnsExceptions ==
    {"NXDOMAIN", "NoAnswer", "NoNameservers", "Timeout", "LifetimeTimeout", "YXDOMAIN"}

\* str.rstrip(".")
RECURSIVE RStripDot(_)
RStripDot(s) ==
    IF s # <<>> /\ s[Len(s)] = "." THEN RStripDot(SubSeq(s, 1, Len(s) - 1)) ELSE s

\* an insertion that puts a record before the records of equal preference
RECURSIVE InsertByPreference_unstable(_, _)
InsertByPreference_unstable(sorted, rec) ==
    IF sorted = <<>> THEN <<rec>>
    ELSE IF sorted[Len(sorted)].preference < rec.preference THEN Append(sorted, rec)
    ELSE Append(InsertByPreference_unstable(SubSeq(sorted, 1, Len(sorted) - 1), rec),
                sorted[Len(sorted)])

\* sorted(mx_records, key=lambda x: x[0]): stable, ascending preference
RECURSIVE InsertByPreference(_, _)
InsertByPreference(sorted, rec) ==
    IF sorted = <<>> THEN <<rec>>
    ELSE IF sorted[Len(sorted)].preference <= rec.preference THEN Append(sorted, rec)
    ELSE Append(InsertByPreference(SubSeq(sorted, 1, Len(sorted) - 1), rec),
                sorted[Len(sorted)])

RECURSIVE SortedByPreference(_)
SortedByPreference(recs) ==
    IF recs = <<>> THEN <<>>
    ELSE InsertByPreference(SortedByPreference(SubSeq(recs, 1, Len(recs) - 1)),
                            recs[Len(recs)])

\* the host list with no filter: every record's host is kept
RECURSIVE NonEmptyHosts_keep_all(_)
NonEmptyHosts_keep_all(recs) ==
    IF recs = <<>> THEN <<>>
    ELSE <<Head(recs).host>> \o NonEmptyHosts_keep_all(Tail(recs))

\* [host for _, host in ... if host]
RECURSIVE NonEmptyHosts(_)
NonEmptyHosts(recs) ==
    IF recs = <<>> THEN <<>>
    ELSE IF Head(recs).host # <<>>
         THEN <<Head(recs).host>> \o NonEmptyHosts(Tail(recs))
         ELSE NonEmptyHosts(Tail(recs))

\* domain_mx.py:54-59: the answer's records, stripped, sorted, filtered
MxHostsOf(answers) ==
    LET mx_records == [i \in 1..Len(answers) |->
                         [preference |-> answers[i].preference,
                          host |-> RStripDot(answers[i].exchange)]]
    IN  NonEmptyHosts(SortedByPreference(mx_records))

\* domain_mx.py:53-74: the try body once resolve() has returned an answer
AnswerResult(domain, answers) ==
    LET mx_hosts == MxHostsOf(answers)
    IN  IF mx_hosts = <<>>
        THEN MXLookupResult(domain, "mx_missing", <<>>, DetailMxMissing)
        ELSE MXLookupResult(domain, "valid", mx_hosts, DetailMxFound)

\* A lookup that asks for more DNS answers than the environment script holds.
Starved == [starved |-> TRUE]

\* _lookup_uncached sleeping after every failed attempt, the last one included
RECURSIVE _lookup_uncached_from_sleep_last(_, _, _, _, _)
_lookup_uncached_from_sleep_last(domain, outs, attempt, retries, sleeps) ==
    LET Ret(r) == [result |-> r, queries |-> attempt, sleeps |-> sleeps]
    IN
    IF attempt > retries
    THEN [result |-> MXLookupResult(domain, "mx_missing", <<>>, DetailDnsTimeout),
          queries |-> retries, sleeps |-> sleeps]
    ELSE IF attempt > Len(outs) THEN Starved
    ELSE LET o == outs[attempt] IN
         IF o.kind = "answer" THEN Ret(AnswerResult(domain, o.answers))
         ELSE IF "NXDOMAIN" \in DnsBases(o.exc)
              THEN Ret(MXLookupResult(domain, "domain_missing", <<>>, DetailDomainMissing))
         ELSE IF "NoAnswer" \in DnsBases(o.exc)
              THEN Ret(MXLookupResult(domain, "mx_missing", <<>>, DetailMxMissing))
         ELSE IF "NoNameservers" \in DnsBases(o.exc)
              THEN IF attempt < retries
                   THEN _lookup_uncached_from_sleep_last(domain, outs, attempt + 1, retries, sleeps + 1)
                   ELSE [result |-> MXLookupResult(domain, "mx_missing", <<>>, DetailNoNameservers),
                         queries |-> attempt, sleeps |-> sleeps + 1]
         ELSE IF "Timeout" \in DnsBases(o.exc) \/ "LifetimeTimeout" \in DnsBases(o.exc)
              THEN IF attempt < retries
                   THEN _lookup_uncached_from_sleep_last(domain, outs, attempt + 1, retries, sleeps + 1)
                   ELSE [result |-> MXLookupResult(domain, "mx_missing", <<>>, DetailDnsTimeout),
                         queries |-> attempt, sleeps |-> sleeps + 1]
         ELSE IF "DNSException" \in DnsBases(o.exc)
              THEN Ret(MXLookupResult(domain, "mx_missing", <<>>, DetailDnsError(o.exc)))
         ELSE Ret(Raised)

\* _lookup_uncached retrying a missing domain and a missing MX answer like a timeout
RECURSIVE _lookup_uncached_from_retry_terminal(_, _, _, _, _)
_lookup_uncached_from_retry_terminal(domain, outs, attempt, retries, sleeps) ==
    LET Ret(r) == [result |-> r, queries |-> attempt, sleeps |-> sleeps]
    IN
    IF attempt > retries
    THEN [result |-> MXLookupResult(domain, "mx_missing", <<>>, DetailDnsTimeout),
          queries |-> retries, sleeps |-> sleeps]
    ELSE IF attempt > Len(outs) THEN Starved
    ELSE LET o == outs[attempt] IN
         IF o.kind = "answer" THEN Ret(AnswerResult(domain, o.answers))
         ELSE IF "NXDOMAIN" \in DnsBases(o.exc)
              THEN IF attempt < retries
                   THEN _lookup_uncached_from_retry_terminal(domain, outs, attempt + 1, retries, sleeps + 1)
                   ELSE Ret(MXLookupResult(domain, "domain_missing", <<>>, DetailDomainMissing))
         ELSE IF "NoAnswer" \in DnsBases(o.exc)
              THEN IF attempt < retries
                   THEN _lookup_uncached_from_retry_terminal(domain, outs, attempt + 1, retries, sleeps + 1)
                   ELSE Ret(MXLookupResult(domain, "mx_missing", <<>>, DetailMxMissing))
         ELSE IF "NoNameservers" \in DnsBases(o.exc)
              THEN IF attempt < retries
                   THEN _lookup_uncached_from_retry_terminal(domain, outs, attempt + 1, retries, sleeps + 1)
                   ELSE Ret(MXLookupResult(domain, "mx_missing", <<>>, DetailNoNameservers))
         ELSE IF "Timeout" \in DnsBases(o.exc) \/ "LifetimeTimeout" \in DnsBases(o.exc)
              THEN IF attempt < retries
                   THEN _lookup_uncached_from_retry_terminal(domain, outs, attempt + 1, retries, sleeps + 1)
                   ELSE Ret(MXLookupResult(domain, "mx_missing", <<>>, DetailDnsTimeout))
         ELSE IF "DNSException" \in DnsBases(o.exc)
              THEN Ret(MXLookupResult(domain, "mx_missing", <<>>, DetailDnsError(o.exc)))
         ELSE Ret(Raised)

\* _lookup_uncached without the last clause, `except dns.exception.DNSException`
RECURSIVE _lookup_uncached_from_no_catch_all(_, _, _, _, _)
_lookup_uncached_from_no_catch_all(domain, outs, attempt, retries, sleeps) ==
    LET Ret(r) == [result |-> r, queries |-> attempt, sleeps |-> sleeps]
    IN
    IF attempt > retries
    THEN [result |-> MXLookupResult(domain, "mx_missing", <<>>, DetailDnsTimeout),
          queries |-> retries, sleeps |-> sleeps]
    ELSE IF attempt > Len(outs) THEN Starved
    ELSE LET o == outs[attempt] IN
         IF o.kind = "answer" THEN Ret(AnswerResult(domain, o.answers))
         ELSE IF "NXDOMAIN" \in DnsBases(o.exc)
              THEN Ret(MXLookupResult(domain, "domain_missing", <<>>, DetailDomainMissing))
         ELSE IF "NoAnswer" \in DnsBases(o.exc)
              THEN Ret(MXLookupResult(domain, "mx_missing", <<>>, DetailMxMissing))
         ELSE IF "NoNameservers" \in DnsBases(o.exc)
              THEN IF attempt < retries
                   THEN _lookup_uncached_from_no_catch_all(domain, outs, attempt + 1, retries, sleeps + 1)
                   ELSE Ret(MXLookupResult(domain, "mx_missing", <<>>, DetailNoNameservers))
         ELSE IF "Timeout" \in DnsBases(o.exc) \/ "LifetimeTimeout" \in DnsBases(o.exc)
              THEN IF attempt < retries
                   THEN _lookup_uncached_from_no_catch_all(domain, outs, attempt + 1, retries, sleeps + 1)
                   ELSE Ret(MXLookupResult(domain, "mx_missing", <<>>, DetailDnsTimeout))
         ELSE Ret(Raised)

(***************************************************************************)
(* DomainMXChecker._lookup_uncached from attempt `attempt` on.  outs[k] is *)
(* what resolve() does on the k-th query: an answer or a raised exception. *)
(* Returns the result with the queries issued and the sleeps taken.        *)
(***************************************************************************)
RECURSIVE _lookup_uncached_from(_, _, _, _, _)
_lookup_uncached_from(domain, outs, attempt, retries, sleeps) ==
    LET Ret(r) == [result |-> r, queries |-> attempt, sleeps |-> sleeps]
    IN
    IF attempt > retries
    THEN [result |-> MXLookupResult(domain, "mx_missing", <<>>, DetailDnsTimeout),
          queries |-> retries, sleeps |-> sleeps]
    ELSE IF attempt > Len(outs) THEN Starved
    ELSE LET o == outs[attempt] IN
         IF o.kind = "answer" THEN Ret(AnswerResult(domain, o.answers))
         ELSE IF "NXDOMAIN" \in DnsBases(o.exc)
              THEN Ret(MXLookupResult(domain, "domain_missing", <<>>, DetailDomainMissing))
         ELSE IF "NoAnswer" \in DnsBases(o.exc)
              THEN Ret(MXLookupResult(domain, "mx_missing", <<>>, DetailMxMissing))
         ELSE IF "NoNameservers" \in DnsBases(o.exc)
              THEN IF attempt < retries
                   THEN _lookup_uncached_from(domain, outs, attempt + 1, retries, sleeps + 1)
                   ELSE Ret(MXLookupResult(domain, "mx_missing", <<>>, DetailNoNameservers))
         ELSE IF "Timeout" \in DnsBases(o.exc) \/ "LifetimeTimeout" \in DnsBases(o.exc)
              THEN IF attempt < retries
                   THEN _lookup_uncached_from(domain, outs, attempt + 1, retries, sleeps + 1)
                   ELSE Ret(MXLookupResult(domain, "mx_missing", <<>>, DetailDnsTimeout))
         ELSE IF "DNSException" \in DnsBases(o.exc)
              THEN Ret(MXLookupResult(domain, "mx_missing", <<>>, DetailDnsError(o.exc)))
         ELSE Ret(Raised)

\* DomainMXChecker._lookup_uncached; self.dns_retries = max(1, dns_retries)
_lookup_uncached(domain, outs) ==
    _lookup_uncached_from(domain, outs, 1, IF dns_retries > 1 THEN dns_retries ELSE 1, 0)

\* the cache test of a resolver that caches nothing
Cacheable_never(result) == FALSE

\* the cache test of a resolver that caches every result
Cacheable_always(result) == TRUE

\* domain_mx.py:41: the test that decides whether the result is cached
Cacheable(result) == result.detail \notin _non_cacheable_details

\* _cache[domain] = result
CachePut(cache, domain, result) ==
    [d \in DOMAIN cache \cup {domain} |-> IF d = domain THEN result ELSE cache[d]]

(***************************************************************************)
(* The DNS environment.                                                    *)
(***************************************************************************)
Domains == {<<"d", ".", "c">>, <<"e", ".", "c">>}

MxRecord(preference, exchange) == [preference |-> preference, exchange |-> exchange]

Answers ==
    { <<MxRecord(10, <<"mx1", ".">>)>>,
      <<MxRecord(10, <<"mx1", ".">>), MxRecord(20, <<"mx2", ".">>)>>,
      <<MxRecord(20, <<"mx2", ".">>), MxRecord(10, <<"mx1", ".">>)>>,
      <<MxRecord(10, <<"mx2", ".">>), MxRecord(10, <<"mx1", ".">>)>>,
      <<MxRecord(0, <<".">>)>>,
      <<MxRecord(0, <<".">>), MxRecord(10, <<"mx1", ".">>)>> }

DnsOutcomes ==
    {[kind |-> "answer", answers |-> a] : a \in Answers}
    \cup {[kind |-> "raise", exc |-> e] : e \in DnsExceptions}

EmptyMap == [d \in {} |-> None]

InitMxIdle ==
    /\ dns_retries = DefaultDnsRetries
    /\ mx_cache = EmptyMap
    /\ mx_last = [d \in Domains |-> None]
    /\ mx_call = None

InitMx ==
    /\ dns_retries \in 0..DefaultDnsRetries
    /\ mx_cache = EmptyMap
    /\ mx_last = [d \in Domains |-> None]
    /\ mx_call = None

(***************************************************************************)
(* DomainMXChecker.lookup(domain), the whole call.  outs is the part of    *)
(* the DNS environment the call consumed: one outcome per query issued.    *)
(***************************************************************************)
ork_lookup(domain, outs) ==
    IF domain \in DOMAIN mx_cache
    THEN /\ outs = <<>>
         /\ mx_call' = [domain |-> domain, outs |-> outs, result |-> mx_cache[domain],
                        queries |-> 0, sleeps |-> 0, prev |-> mx_last[domain]]
         /\ mx_last' = [mx_last EXCEPT ![domain] = mx_cache[domain]]
         /\ UNCHANGED mx_cache
    ELSE LET r == _lookup_uncached(domain, outs) IN
         /\ r # Starved
         /\ r.queries = Len(outs)
         /\ mx_cache' = IF r.result # Raised /\ Cacheable(r.result)
                        THEN CachePut(mx_cache, domain, r.result)
                        ELSE mx_cache
         /\ mx_call' = [domain |-> domain, outs |-> outs, result |-> r.result,
                        queries |-> r.queries, sleeps |-> r.sleeps,
                        prev |-> mx_last[domain]]
         /\ mx_last' = IF r.result # Raised
                       THEN [mx_last EXCEPT ![domain] = r.result]
                       ELSE mx_last

Lookup ==
    /\ \E domain \in Domains :
       \E outs \in SeqsUpTo(DnsOutcomes, IF dns_retries > 1 THEN dns_retries ELSE 1) :
          ork_lookup(domain, outs)
    /\ UNCHANGED dns_retries
    /\ UNCHANGED <<rcVars, smtpVars, batchVars, connVars, sumVars, runVars, colVars>>

NextMx == Lookup

(***************************************************************************)
(* SMTPHandshakeChecker: the SMTP conversation of one connection.          *)
(*                                                                         *)
(* A script says what the server (and the network) does at each step the   *)
(* client reaches: a reply, or an exception raised by smtplib, ssl or the  *)
(* socket layer.  A step the client does not reach is "unused".            *)
(***************************************************************************)
Reply(code) == [kind |-> "reply", code |-> code, exc |-> "none", starttls |-> FALSE]
EhloReply(code, starttls) ==
    [kind |-> "reply", code |-> code, exc |-> "none", starttls |-> starttls]
Raise(cls) == [kind |-> "raise", code |-> 0, exc |-> cls, starttls |-> FALSE]
Unused == [kind |-> "unused", code |-> 0, exc |-> "none", starttls |-> FALSE]

\* the exception classes the conversation may raise, each with its bases
\* (smtplib.SMTPException is a subclass of OSError; socket.timeout is TimeoutError)
SmtpBases(cls) ==
    CASE cls = "TimeoutError" -> {"TimeoutError", "OSError"}
      [] cls = "ConnectionRefusedError" -> {"ConnectionRefusedError", "OSError"}
      [] cls = "SSLError" -> {"SSLError", "OSError"}
      [] cls = "SMTPConnectError" ->
            {"SMTPConnectError", "SMTPResponseException", "SMTPException", "OSError"}
      [] cls = "SMTPResponseException" ->
            {"SMTPResponseException", "SMTPException", "OSError"}
      [] cls = "SMTPServerDisconnected" ->
            {"SMTPServerDisconnected", "SMTPException", "OSError"}
      [] cls = "none" -> {}

ReplyText == [bytes |-> TRUE, data |-> <<"text">>]    \* the text of every scripted reply

DetailNoMxHosts == <<"no MX hosts for SMTP check">>        \* smtp_handshake.py:34
DetailCouldNotCheck == <<"could not check">>               \* smtp_handshake.py:66
HintPort25 == <<" outbound port 25 is probably blocked">>  \* smtp_handshake.py:69
DetailMailFromRejected == "MAIL FROM rejected: "           \* smtp_handshake.py:103
DetailSmtpError == "SMTP error: "                          \* smtp_handshake.py:136

\* the STARTTLS upgrade with no EHLO sent again after a successful handshake
StartTlsStep_no_ehlo(script) ==
    LET s == script.starttls
        h == script.handshake
        e2 == script.ehlo2
        Swallowed(cls) == "SMTPException" \in SmtpBases(cls)
    IN  IF s.kind = "raise"
        THEN [cmds |-> <<"STARTTLS">>, used |-> {"starttls"},
              exc |-> IF Swallowed(s.exc) THEN "none" ELSE s.exc,
              open |-> s.exc # "SMTPServerDisconnected"]
        ELSE IF s.code # 220
        THEN \* smtplib raises SMTPResponseException(resp, reply)
             [cmds |-> <<"STARTTLS">>, used |-> {"starttls"},
              exc |-> IF Swallowed("SMTPResponseException")
                      THEN "none" ELSE "SMTPResponseException",
              open |-> TRUE]
        ELSE IF h.kind = "raise"
        THEN [cmds |-> <<"STARTTLS">>, used |-> {"starttls", "handshake"},
              exc |-> IF Swallowed(h.exc) THEN "none" ELSE h.exc,
              open |-> h.exc # "SMTPServerDisconnected"]
        ELSE IF e2.kind = "raise"
        THEN [cmds |-> <<"STARTTLS", "EHLO">>, used |-> {"starttls", "handshake", "ehlo2"},
              exc |-> IF Swallowed(e2.exc) THEN "none" ELSE e2.exc,
              open |-> e2.exc # "SMTPServerDisconnected"]
        ELSE [cmds |-> <<"STARTTLS">>, used |-> {"starttls", "handshake", "ehlo2"},
              exc |-> "none", open |-> TRUE]

\* smtp_handshake.py:84-96: the STARTTLS upgrade with its inner try/except.
\* exc is what leaves the inner try; open says whether the socket is still there.
StartTlsStep(script) ==
    LET s == script.starttls
        h == script.handshake
        e2 == script.ehlo2
        Swallowed(cls) == "SMTPException" \in SmtpBases(cls)
    IN  IF s.kind = "raise"
        THEN [cmds |-> <<"STARTTLS">>, used |-> {"starttls"},
              exc |-> IF Swallowed(s.exc) THEN "none" ELSE s.exc,
              open |-> s.exc # "SMTPServerDisconnected"]
        ELSE IF s.code # 220
        THEN \* smtplib raises SMTPResponseException(resp, reply)
             [cmds |-> <<"STARTTLS">>, used |-> {"starttls"},
              exc |-> IF Swallowed("SMTPResponseException")
                      THEN "none" ELSE "SMTPResponseException",
              open |-> TRUE]
        ELSE IF h.kind = "raise"
        THEN [cmds |-> <<"STARTTLS">>, used |-> {"starttls", "handshake"},
              exc |-> IF Swallowed(h.exc) THEN "none" ELSE h.exc,
              open |-> h.exc # "SMTPServerDisconnected"]
        ELSE IF e2.kind = "raise"
        THEN [cmds |-> <<"STARTTLS", "EHLO">>, used |-> {"starttls", "handshake", "ehlo2"},
              exc |-> IF Swallowed(e2.exc) THEN "none" ELSE e2.exc,
              open |-> e2.exc # "SMTPServerDisconnected"]
        ELSE [cmds |-> <<"STARTTLS", "EHLO">>, used |-> {"starttls", "handshake", "ehlo2"},
              exc |-> "none", open |-> TRUE]

\* MAIL FROM and RCPT TO with DATA sent once the recipient is accepted
MailRcptStep_sends_data(script, open) ==
    LET m == script.mail
        r == script.rcpt
    IN  IF ~open
        THEN [cmds |-> <<>>, used |-> {}, exc |-> "SMTPServerDisconnected",
              value |-> None, open |-> FALSE]
        ELSE IF m.kind = "raise"
        THEN [cmds |-> <<"MAIL FROM">>, used |-> {"mail"}, exc |-> m.exc,
              value |-> None, open |-> m.exc # "SMTPServerDisconnected"]
        ELSE IF m.code >= 500
        THEN [cmds |-> <<"MAIL FROM">>, used |-> {"mail"}, exc |-> "none",
              value |-> SMTPCheckResult("unknown",
                           <<DetailMailFromRejected, ToString(m.code), " ">>
                               \o _decode(ReplyText),
                           m.code),
              open |-> TRUE]
        ELSE IF r.kind = "raise"
        THEN [cmds |-> <<"MAIL FROM", "RCPT TO">>, used |-> {"mail", "rcpt"},
              exc |-> r.exc, value |-> None, open |-> r.exc # "SMTPServerDisconnected"]
        ELSE [cmds |-> IF r.code = 250 THEN <<"MAIL FROM", "RCPT TO", "DATA">>
                       ELSE <<"MAIL FROM", "RCPT TO">>,
              used |-> {"mail", "rcpt"},
              exc |-> "none", value |-> _interpret_rcpt_response(r.code, ReplyText),
              open |-> TRUE]

\* smtp_handshake.py:98-117: MAIL FROM, the >= 500 test, RCPT TO and its
\* classification.  On a closed socket smtplib raises SMTPServerDisconnected
\* before it sends anything.
MailRcptStep(script, open) ==
    LET m == script.mail
        r == script.rcpt
    IN  IF ~open
        THEN [cmds |-> <<>>, used |-> {}, exc |-> "SMTPServerDisconnected",
              value |-> None, open |-> FALSE]
        ELSE IF m.kind = "raise"
        THEN [cmds |-> <<"MAIL FROM">>, used |-> {"mail"}, exc |-> m.exc,
              value |-> None, open |-> m.exc # "SMTPServerDisconnected"]
        ELSE IF m.code >= 500
        THEN [cmds |-> <<"MAIL FROM">>, used |-> {"mail"}, exc |-> "none",
              value |-> SMTPCheckResult("unknown",
                           <<DetailMailFromRejected, ToString(m.code), " ">>
                               \o _decode(ReplyText),
                           m.code),
              open |-> TRUE]
        ELSE IF r.kind = "raise"
        THEN [cmds |-> <<"MAIL FROM", "RCPT TO">>, used |-> {"mail", "rcpt"},
              exc |-> r.exc, value |-> None, open |-> r.exc # "SMTPServerDisconnected"]
        ELSE [cmds |-> <<"MAIL FROM", "RCPT TO">>, used |-> {"mail", "rcpt"},
              exc |-> "none", value |-> _interpret_rcpt_response(r.code, ReplyText),
              open |-> TRUE]

\* smtplib.SMTP.__exit__ (the with statement of smtp_handshake.py:81): QUIT is
\* sent if the socket is there; a reply other than 221 raises
\* SMTPResponseException, which replaces the value or exception of the body;
\* SMTPServerDisconnected is swallowed.
ExitStep(script, body) ==
    LET q == script.quit
    IN  IF ~body.open THEN body
        ELSE IF q.kind = "raise"
        THEN [body EXCEPT !.cmds = Append(@, "QUIT"), !.used = @ \cup {"quit"},
                          !.exc = IF q.exc = "SMTPServerDisconnected" THEN @ ELSE q.exc,
                          !.value = IF q.exc = "SMTPServerDisconnected" THEN @ ELSE None]
        ELSE IF q.code # 221
        THEN [body EXCEPT !.cmds = Append(@, "QUIT"), !.used = @ \cup {"quit"},
                          !.exc = "SMTPResponseException", !.value = None]
        ELSE [body EXCEPT !.cmds = Append(@, "QUIT"), !.used = @ \cup {"quit"}]

\* smtp_handshake.py:81-117: the try body, from the SMTP constructor to the end
\* of the with statement.  Gives the commands sent, the exception that leaves
\* the body ("none": the body returned value) and the script steps consulted.
SmtpRun(script, tls) ==
    LET c == script.connect
        e == script.ehlo
    IN  IF c.kind = "raise"
        THEN [cmds |-> <<>>, used |-> {"connect"}, exc |-> c.exc, value |-> None,
              open |-> FALSE]
        ELSE IF e.kind = "raise"
        THEN ExitStep(script,
                 [cmds |-> <<"EHLO">>, used |-> {"connect", "ehlo"}, exc |-> e.exc,
                  value |-> None, open |-> e.exc # "SMTPServerDisconnected"])
        ELSE LET up == IF tls /\ e.starttls
                       THEN StartTlsStep(script)
                       ELSE [cmds |-> <<>>, used |-> {}, exc |-> "none", open |-> TRUE]
             IN  IF up.exc # "none"
                 THEN ExitStep(script,
                          [cmds |-> <<"EHLO">> \o up.cmds,
                           used |-> {"connect", "ehlo"} \cup up.used,
                           exc |-> up.exc, value |-> None, open |-> up.open])
                 ELSE LET mr == MailRcptStep(script, up.open)
                      IN  ExitStep(script,
                              [cmds |-> <<"EHLO">> \o up.cmds \o mr.cmds,
                               used |-> {"connect", "ehlo"} \cup up.used \cup mr.used,
                               exc |-> mr.exc, value |-> mr.value, open |-> mr.open])

\* the except clauses without `except OSError`
ExceptClause_no_oserror(exc) ==
    IF exc = "none" THEN "none"
    ELSE IF "TimeoutError" \in SmtpBases(exc) THEN "timeout"
    ELSE IF "SMTPConnectError" \in SmtpBases(exc) THEN "connect"
    ELSE IF "SMTPServerDisconnected" \in SmtpBases(exc) THEN "disconnected"
    ELSE IF "SMTPException" \in SmtpBases(exc) THEN "smtp"
    ELSE "unhandled"

\* smtp_handshake.py:118-136: the except clauses, in order.  Gives the value
\* returned (None: a failed attempt) and the reason handed to
\* _mark_host_unavailable (<<>>: the host is not marked).
ExceptClause(exc) ==
    IF exc = "none" THEN "none"
    ELSE IF "TimeoutError" \in SmtpBases(exc) THEN "timeout"
    ELSE IF "SMTPConnectError" \in SmtpBases(exc) THEN "connect"
    ELSE IF "SMTPServerDisconnected" \in SmtpBases(exc) THEN "disconnected"
    ELSE IF "OSError" \in SmtpBases(exc) THEN "oserror"
    ELSE IF "SMTPException" \in SmtpBases(exc) THEN "smtp"
    ELSE "unhandled"

\* ork SMTPHandshakeChecker._verify_with_host
_verify_with_host(script, tls) ==
    LET run == SmtpRun(script, tls)
        clause == ExceptClause(run.exc)
        Out(ret, reason) == [ret |-> ret, reason |-> reason, cmds |-> run.cmds,
                             exc |-> run.exc, clause |-> clause, used |-> run.used]
    IN  IF run.exc = "none" THEN Out(run.value, <<>>)
        ELSE IF clause = "timeout" THEN Out(None, <<"timeout">>)
        ELSE IF clause = "connect" THEN Out(None, <<"connect error: ", "<exc>">>)
        ELSE IF clause = "disconnected" THEN Out(None, <<"server disconnected">>)
        ELSE IF clause = "oserror" THEN Out(None, <<"network error", ": ", "<exc>">>)
        ELSE IF clause = "smtp"
        THEN Out(SMTPCheckResult("unknown", <<DetailSmtpError, "<exc>">>, NoCode), <<>>)
        ELSE Out(Raised, <<>>)

\* pot SMTPHandshakeChecker._verify_with_host: the same conversation and except
\* clauses; no host is ever marked
pot_verify_with_host(script, tls) ==
    [_verify_with_host(script, tls) EXCEPT !.reason = <<>>]

(***************************************************************************)
(* The scripts: every combination of step outcomes in which exactly the    *)
(* steps the client reaches are scripted.                                  *)
(***************************************************************************)
ConnectOutcomes ==
    {Reply(220), Raise("TimeoutError"), Raise("ConnectionRefusedError"),
     Raise("SMTPConnectError"), Raise("SMTPServerDisconnected")}
EhloOutcomes == {EhloReply(250, TRUE), EhloReply(250, FALSE), Raise("SMTPServerDisconnected")}
StartTlsOutcomes == {Reply(220), Reply(454), Raise("SMTPServerDisconnected")}
HandshakeOutcomes == {Reply(0), Raise("SSLError"), Raise("TimeoutError")}
Ehlo2Outcomes == {EhloReply(250, FALSE), Raise("SMTPServerDisconnected")}
MailOutcomes == {Reply(250), Reply(451), Reply(550), Raise("SMTPServerDisconnected")}
RcptOutcomes ==
    {Reply(250), Reply(450), Reply(550), Reply(530), Raise("SMTPServerDisconnected")}
QuitOutcomes == {Reply(221), Reply(500), Raise("SMTPServerDisconnected")}

ScriptFields ==
    {"connect", "ehlo", "starttls", "handshake", "ehlo2", "mail", "rcpt", "quit"}

AllScripts ==
    [connect : ConnectOutcomes,
     ehlo : EhloOutcomes \cup {Unused},
     starttls : StartTlsOutcomes \cup {Unused},
     handshake : HandshakeOutcomes \cup {Unused},
     ehlo2 : Ehlo2Outcomes \cup {Unused},
     mail : MailOutcomes \cup {Unused},
     rcpt : RcptOutcomes \cup {Unused},
     quit : QuitOutcomes \cup {Unused}]

ScriptsFor(tls) ==
    {s \in AllScripts :
        \A f \in ScriptFields : (s[f].kind # "unused") <=> (f \in SmtpRun(s, tls).used)}

ScriptsTls == {s : s \in ScriptsFor(TRUE)}
ScriptsNoTls == {s : s \in ScriptsFor(FALSE)}
Scripts(tls) == IF tls THEN ScriptsTls ELSE ScriptsNoTls

\* what verify sees of one _verify_with_host call: the value returned, the
\* exception raised inside it, the except clause taken and the reason the host
\* was marked with
Seen(r) == [ret |-> r.ret, exc |-> r.exc, clause |-> r.clause, reason |-> r.reason]

OrkOutcomesTls == {Seen(_verify_with_host(s, TRUE)) : s \in ScriptsTls}
OrkOutcomesNoTls == {Seen(_verify_with_host(s, FALSE)) : s \in ScriptsNoTls}
PotOutcomesTls == {Seen(pot_verify_with_host(s, TRUE)) : s \in ScriptsTls}
PotOutcomesNoTls == {Seen(pot_verify_with_host(s, FALSE)) : s \in ScriptsNoTls}

\* the outcomes of self._verify_with_host(host, target_email) over all scripts
AttemptOutcomes ==
    IF impl = "ork"
    THEN (IF try_starttls THEN OrkOutcomesTls ELSE OrkOutcomesNoTls)
    ELSE (IF try_starttls THEN PotOutcomesTls ELSE PotOutcomesNoTls)

(***************************************************************************)
(* SMTPHandshakeChecker.verify and the cooldown table.                     *)
(***************************************************************************)
Min(a, b) == IF a < b THEN a ELSE b
Max(a, b) == IF a > b THEN a ELSE b

\* the substring test `word in err`
Contains(err, word) == \E i \in 1..Len(err) : err[i] = word

\* sep.join(parts)
RECURSIVE Join(_, _)
Join(parts, sep) ==
    IF parts = <<>> THEN <<>>
    ELSE IF Len(parts) = 1 THEN parts[1]
    ELSE parts[1] \o sep \o Join(Tail(parts), sep)

\* the first four notes instead of the last four: errors[:4]
LastFour_oldest(errors) == SubSeq(errors, 1, Min(4, Len(errors)))

\* errors[-4:]
LastFour(errors) == SubSeq(errors, Max(1, Len(errors) - 3), Len(errors))

\* smtp_handshake.py:61: the note of a failed attempt
FailNote(host, attempt) == host \o <<": attempt ", ToString(attempt), " failed">>

\* smtp_handshake.py:182: the note of a host skipped by cooldown
SkipNote(host, reason, wait_left) ==
    host \o <<": skip due to recent ">> \o reason
         \o <<" (cooldown ", ToString(wait_left), "s)">>

\* dict.pop(host, None)
MapPop(map, host) == [h \in DOMAIN map \ {host} |-> map[h]]

\* dict[host] = value
MapPut(map, host, value) ==
    [h \in DOMAIN map \cup {host} |-> IF h = host THEN value ELSE map[h]]

\* the candidate list with no cut: every host of mx_hosts
HostCandidates_all(mx_hosts) == mx_hosts

\* mx_hosts[: max(1, self.config.max_mx_tries)]
HostCandidates(mx_hosts) == SubSeq(mx_hosts, 1, Min(Len(mx_hosts), Max(1, max_mx_tries)))

\* _cooldown_note that, on finding the host's entry expired, removes every
\* expired entry of the table
_cooldown_note_purge_all(host) ==
    LET live == {h \in DOMAIN _host_unavailable_until : now < _host_unavailable_until[h]}
    IN  IF host \notin DOMAIN _host_unavailable_until
        THEN [skip |-> FALSE, purged |-> FALSE, note |-> <<>>,
              until |-> _host_unavailable_until, reason |-> _host_unavailable_reason]
        ELSE IF now >= _host_unavailable_until[host]
        THEN [skip |-> FALSE, purged |-> TRUE, note |-> <<>>,
              until |-> [h \in live |-> _host_unavailable_until[h]],
              reason |-> [h \in live \cap DOMAIN _host_unavailable_reason |->
                            _host_unavailable_reason[h]]]
        ELSE [skip |-> TRUE, purged |-> FALSE,
              note |-> SkipNote(host,
                           IF host \in DOMAIN _host_unavailable_reason
                           THEN _host_unavailable_reason[host] ELSE <<"host unavailable">>,
                           _host_unavailable_until[host] - now),
              until |-> _host_unavailable_until, reason |-> _host_unavailable_reason]

\* _cooldown_note with the expiry test `now > unavailable_until`
_cooldown_note_strict(host) ==
    IF host \notin DOMAIN _host_unavailable_until
    THEN [skip |-> FALSE, purged |-> FALSE, note |-> <<>>,
          until |-> _host_unavailable_until, reason |-> _host_unavailable_reason]
    ELSE IF now > _host_unavailable_until[host]
    THEN [skip |-> FALSE, purged |-> TRUE, note |-> <<>>,
          until |-> MapPop(_host_unavailable_until, host),
          reason |-> MapPop(_host_unavailable_reason, host)]
    ELSE [skip |-> TRUE, purged |-> FALSE,
          note |-> SkipNote(host,
                       IF host \in DOMAIN _host_unavailable_reason
                       THEN _host_unavailable_reason[host] ELSE <<"host unavailable">>,
                       _host_unavailable_until[host] - now),
          until |-> _host_unavailable_until, reason |-> _host_unavailable_reason]

\* _cooldown_note that never reports a cooldown
_cooldown_note_off(host) ==
    [skip |-> FALSE, purged |-> FALSE, note |-> <<>>,
     until |-> _host_unavailable_until, reason |-> _host_unavailable_reason]

\* SMTPHandshakeChecker._cooldown_note: skip tells whether a note is returned;
\* until and reason are the two maps as the call leaves them
_cooldown_note(host) ==
    IF host \notin DOMAIN _host_unavailable_until
    THEN [skip |-> FALSE, purged |-> FALSE, note |-> <<>>,
          until |-> _host_unavailable_until, reason |-> _host_unavailable_reason]
    ELSE IF now >= _host_unavailable_until[host]
    THEN [skip |-> FALSE, purged |-> TRUE, note |-> <<>>,
          until |-> MapPop(_host_unavailable_until, host),
          reason |-> MapPop(_host_unavailable_reason, host)]
    ELSE [skip |-> TRUE, purged |-> FALSE,
          note |-> SkipNote(host,
                       IF host \in DOMAIN _host_unavailable_reason
                       THEN _host_unavailable_reason[host] ELSE <<"host unavailable">>,
                       _host_unavailable_until[host] - now),
          until |-> _host_unavailable_until, reason |-> _host_unavailable_reason]

\* pot smtp_handshake.py:36-37: the pot checker has no cooldown table to ask
pot_cooldown_note(host) ==
    [skip |-> FALSE, purged |-> FALSE, note |-> <<>>,
     until |-> _host_unavailable_until, reason |-> _host_unavailable_reason]

\* SMTPHandshakeChecker._mark_host_unavailable: the two maps after the call
_mark_host_unavailable(host, reason) ==
    LET cooldown == Max(0, host_failure_cooldown_sec)
    IN  IF cooldown <= 0
        THEN [until |-> _host_unavailable_until, reason |-> _host_unavailable_reason]
        ELSE [until |-> MapPut(_host_unavailable_until, host, now + cooldown),
              reason |-> MapPut(_host_unavailable_reason, host, reason)]

\* ork smtp_handshake.py:65-75: the result when no host gave one
ork_summary(errors) ==
    IF errors = <<>>
    THEN SMTPCheckResult("unknown", DetailCouldNotCheck, NoCode)
    ELSE LET suffix ==
                 IF \E i \in 1..Len(errors) :
                        Contains(errors[i], "timeout") \/ Contains(errors[i], "network error")
                 THEN HintPort25 ELSE <<>>
         IN  SMTPCheckResult("unknown", Join(LastFour(errors), <<"; ">>) \o suffix, NoCode)

\* pot smtp_handshake.py:46: the result when no host gave one
pot_summary(errors) ==
    LET joined == Join(LastFour(errors), <<"; ">>)
    IN  SMTPCheckResult("unknown", IF joined # <<>> THEN joined ELSE DetailCouldNotCheck,
                        NoCode)

Hosts == {<<"mx1">>, <<"mx2">>}
TargetEmails == {<<"u", "@", "d", ".", "c">>}

\* What a verify call did, in order.  "skip": the host was in cooldown, with left
\* seconds to go; "purge": its entry had expired left seconds ago (left <= 0) and
\* was removed; "connect": one _verify_with_host call, with the except clause it
\* ended in ("none": it returned a result); "sleep": time.sleep(retry_delay_sec).
Event(ev, host, left, clause) == [ev |-> ev, host |-> host, left |-> left, clause |-> clause]

InitFrame ==
    /\ v_pc = "idle"
    /\ v_target_email = <<>>
    /\ v_mx_hosts = <<>>
    /\ v_errors = <<>>
    /\ v_idx = 0
    /\ v_attempt = 0
    /\ v_result = None
    /\ v_events = <<>>
    /\ v_conn = None
    /\ v_empty0 = TRUE

InitSmtpIdle ==
    /\ impl = "ork"
    /\ retry_attempts = DefaultRetryAttempts
    /\ max_mx_tries = DEFAULT_MAX_MX_TRIES
    /\ try_starttls = TRUE
    /\ host_failure_cooldown_sec = 0
    /\ now = 0
    /\ _host_unavailable_until = EmptyMap
    /\ _host_unavailable_reason = EmptyMap
    /\ InitFrame

\* SMTPHandshakeChecker.__init__ with a drawn configuration; try_starttls keeps
\* its default here (it only matters inside one conversation)
InitSmtp ==
    /\ impl \in {"ork", "pot"}
    /\ retry_attempts \in 0..DefaultRetryAttempts
    /\ max_mx_tries \in 0..DEFAULT_MAX_MX_TRIES
    /\ try_starttls = TRUE
    /\ host_failure_cooldown_sec \in (IF impl = "ork" THEN 0..MaxCooldown ELSE {0})
    /\ now = 0
    /\ _host_unavailable_until = EmptyMap
    /\ _host_unavailable_reason = EmptyMap
    /\ InitFrame

\* verify without the test for an empty host list
verify_enter_no_guard(target_email, mx_hosts) ==
    /\ v_pc = "idle"
    /\ v_target_email' = target_email
    /\ v_mx_hosts' = mx_hosts
    /\ v_empty0' = (DOMAIN _host_unavailable_until = {} /\ DOMAIN _host_unavailable_reason = {})
    /\ v_events' = <<>>
    /\ v_conn' = None
    /\ v_errors' = <<>>
    /\ v_attempt' = 0
    /\ v_result' = None
    /\ v_idx' = 1
    /\ v_pc' = "host"
    /\ UNCHANGED <<cfgVars, now, tableVars>>

\* verify is entered: smtp_handshake.py:32-38
verify_enter(target_email, mx_hosts) ==
    /\ v_pc = "idle"
    /\ v_target_email' = target_email
    /\ v_mx_hosts' = mx_hosts
    /\ v_empty0' = (DOMAIN _host_unavailable_until = {} /\ DOMAIN _host_unavailable_reason = {})
    /\ v_events' = <<>>
    /\ v_conn' = None
    /\ v_errors' = <<>>
    /\ v_attempt' = 0
    /\ IF mx_hosts = <<>>
       THEN /\ v_result' = SMTPCheckResult("unknown", DetailNoMxHosts, NoCode)
            /\ v_idx' = 0
            /\ v_pc' = "done"
       ELSE /\ v_result' = None
            /\ v_idx' = 1
            /\ v_pc' = "host"
    /\ UNCHANGED <<cfgVars, now, tableVars>>

\* the head of `for host in host_candidates`: smtp_handshake.py:40-47 (ork),
\* 36-37 (pot).  An unexpired cooldown skips the host; an empty attempt range
\* moves on as well.
verify_host ==
    /\ v_pc = "host"
    /\ v_idx <= Len(HostCandidates(v_mx_hosts))
    /\ LET host == HostCandidates(v_mx_hosts)[v_idx]
           cn == IF impl = "ork" THEN _cooldown_note(host) ELSE pot_cooldown_note(host)
           left == IF host \in DOMAIN _host_unavailable_until
                   THEN _host_unavailable_until[host] - now ELSE 0
           seen == IF cn.purged
                   THEN Append(v_events, Event("purge", host, left, "none"))
                   ELSE v_events
       IN  /\ _host_unavailable_until' = cn.until
           /\ _host_unavailable_reason' = cn.reason
           /\ IF cn.skip
              THEN /\ v_errors' = Append(v_errors, cn.note)
                   /\ v_events' = Append(v_events, Event("skip", host, left, "none"))
                   /\ v_idx' = v_idx + 1
                   /\ UNCHANGED <<v_pc, v_attempt>>
              ELSE IF retry_attempts >= 1
              THEN /\ v_attempt' = 1
                   /\ v_pc' = "attempt"
                   /\ v_events' = seen
                   /\ UNCHANGED <<v_errors, v_idx>>
              ELSE /\ v_idx' = v_idx + 1
                   /\ v_events' = seen
                   /\ UNCHANGED <<v_errors, v_pc, v_attempt>>
    /\ UNCHANGED <<cfgVars, now, v_target_email, v_mx_hosts, v_result, v_conn, v_empty0>>

\* one pass of the attempt loop that drops the cooldown entry of a host that
\* gave a result
verify_attempt_clear_on_success(r) ==
    /\ v_pc = "attempt"
    /\ LET host == HostCandidates(v_mx_hosts)[v_idx]
           marked == IF r.reason # <<>>
                     THEN _mark_host_unavailable(host, r.reason)
                     ELSE IF r.ret # None
                     THEN [until |-> MapPop(_host_unavailable_until, host),
                           reason |-> MapPop(_host_unavailable_reason, host)]
                     ELSE [until |-> _host_unavailable_until,
                           reason |-> _host_unavailable_reason]
       IN  /\ _host_unavailable_until' = marked.until
           /\ _host_unavailable_reason' = marked.reason
           /\ v_conn' = [host |-> host, target |-> v_target_email, attempt |-> v_attempt,
                         exc |-> r.exc, clause |-> r.clause, ret |-> r.ret]
           /\ IF r.ret = Raised
              THEN /\ v_pc' = "raised"
                   /\ v_events' = Append(v_events, Event("connect", host, 0, r.clause))
                   /\ UNCHANGED <<v_result, v_errors, v_idx, v_attempt>>
              ELSE IF r.ret # None
              THEN /\ v_result' = r.ret
                   /\ v_pc' = "done"
                   /\ v_events' = Append(v_events, Event("connect", host, 0, r.clause))
                   /\ UNCHANGED <<v_errors, v_idx, v_attempt>>
              ELSE /\ v_errors' = Append(v_errors, FailNote(host, v_attempt))
                   /\ UNCHANGED v_result
                   /\ IF v_attempt < retry_attempts
                      THEN /\ v_events' = v_events \o <<Event("connect", host, 0, r.clause),
                                                         Event("sleep", host, 0, "none")>>
                           /\ v_attempt' = v_attempt + 1
                           /\ UNCHANGED <<v_pc, v_idx>>
                      ELSE /\ v_events' = Append(v_events, Event("connect", host, 0, r.clause))
                           /\ v_idx' = v_idx + 1
                           /\ v_pc' = "host"
                           /\ UNCHANGED v_attempt
    /\ UNCHANGED <<cfgVars, now, v_target_email, v_mx_hosts, v_empty0>>

\* one pass of the attempt loop that leaves a host as soon as the host has a
\* cooldown entry
verify_attempt_recheck(r) ==
    /\ v_pc = "attempt"
    /\ LET host == HostCandidates(v_mx_hosts)[v_idx]
           marked == IF r.reason # <<>>
                     THEN _mark_host_unavailable(host, r.reason)
                     ELSE [until |-> _host_unavailable_until,
                           reason |-> _host_unavailable_reason]
       IN  /\ _host_unavailable_until' = marked.until
           /\ _host_unavailable_reason' = marked.reason
           /\ v_conn' = [host |-> host, target |-> v_target_email, attempt |-> v_attempt,
                         exc |-> r.exc, clause |-> r.clause, ret |-> r.ret]
           /\ IF r.ret = Raised
              THEN /\ v_pc' = "raised"
                   /\ v_events' = Append(v_events, Event("connect", host, 0, r.clause))
                   /\ UNCHANGED <<v_result, v_errors, v_idx, v_attempt>>
              ELSE IF r.ret # None
              THEN /\ v_result' = r.ret
                   /\ v_pc' = "done"
                   /\ v_events' = Append(v_events, Event("connect", host, 0, r.clause))
                   /\ UNCHANGED <<v_errors, v_idx, v_attempt>>
              ELSE /\ v_errors' = Append(v_errors, FailNote(host, v_attempt))
                   /\ UNCHANGED v_result
                   /\ IF v_attempt < retry_attempts /\ host \notin DOMAIN marked.until
                      THEN /\ v_events' = v_events \o <<Event("connect", host, 0, r.clause),
                                                         Event("sleep", host, 0, "none")>>
                           /\ v_attempt' = v_attempt + 1
                           /\ UNCHANGED <<v_pc, v_idx>>
                      ELSE /\ v_events' = Append(v_events, Event("connect", host, 0, r.clause))
                           /\ v_idx' = v_idx + 1
                           /\ v_pc' = "host"
                           /\ UNCHANGED v_attempt
    /\ UNCHANGED <<cfgVars, now, v_target_email, v_mx_hosts, v_empty0>>

\* one pass of the attempt loop that sleeps after every failed attempt, the
\* last one on the host included
verify_attempt_sleep_always(r) ==
    /\ v_pc = "attempt"
    /\ LET host == HostCandidates(v_mx_hosts)[v_idx]
           marked == IF r.reason # <<>>
                     THEN _mark_host_unavailable(host, r.reason)
                     ELSE [until |-> _host_unavailable_until,
                           reason |-> _host_unavailable_reason]
       IN  /\ _host_unavailable_until' = marked.until
           /\ _host_unavailable_reason' = marked.reason
           /\ v_conn' = [host |-> host, target |-> v_target_email, attempt |-> v_attempt,
                         exc |-> r.exc, clause |-> r.clause, ret |-> r.ret]
           /\ IF r.ret = Raised
              THEN /\ v_pc' = "raised"
                   /\ v_events' = Append(v_events, Event("connect", host, 0, r.clause))
                   /\ UNCHANGED <<v_result, v_errors, v_idx, v_attempt>>
              ELSE IF r.ret # None
              THEN /\ v_result' = r.ret
                   /\ v_pc' = "done"
                   /\ v_events' = Append(v_events, Event("connect", host, 0, r.clause))
                   /\ UNCHANGED <<v_errors, v_idx, v_attempt>>
              ELSE /\ v_errors' = Append(v_errors, FailNote(host, v_attempt))
                   /\ UNCHANGED v_result
                   /\ IF v_attempt < retry_attempts
                      THEN /\ v_events' = v_events \o <<Event("connect", host, 0, r.clause),
                                                         Event("sleep", host, 0, "none")>>
                           /\ v_attempt' = v_attempt + 1
                           /\ UNCHANGED <<v_pc, v_idx>>
                      ELSE /\ v_events' = v_events \o <<Event("connect", host, 0, r.clause),
                                                         Event("sleep", host, 0, "none")>>
                           /\ v_idx' = v_idx + 1
                           /\ v_pc' = "host"
                           /\ UNCHANGED v_attempt
    /\ UNCHANGED <<cfgVars, now, v_target_email, v_mx_hosts, v_empty0>>

\* one pass of `for attempt in range(...)`: smtp_handshake.py:47-63 with
\* _verify_with_host and _mark_host_unavailable
verify_attempt(r) ==
    /\ v_pc = "attempt"
    /\ LET host == HostCandidates(v_mx_hosts)[v_idx]
           marked == IF r.reason # <<>>
                     THEN _mark_host_unavailable(host, r.reason)
                     ELSE [until |-> _host_unavailable_until,
                           reason |-> _host_unavailable_reason]
       IN  /\ _host_unavailable_until' = marked.until
           /\ _host_unavailable_reason' = marked.reason
           /\ v_conn' = [host |-> host, target |-> v_target_email, attempt |-> v_attempt,
                         exc |-> r.exc, clause |-> r.clause, ret |-> r.ret]
           /\ IF r.ret = Raised
              THEN /\ v_pc' = "raised"
                   /\ v_events' = Append(v_events, Event("connect", host, 0, r.clause))
                   /\ UNCHANGED <<v_result, v_errors, v_idx, v_attempt>>
              ELSE IF r.ret # None
              THEN /\ v_result' = r.ret
                   /\ v_pc' = "done"
                   /\ v_events' = Append(v_events, Event("connect", host, 0, r.clause))
                   /\ UNCHANGED <<v_errors, v_idx, v_attempt>>
              ELSE /\ v_errors' = Append(v_errors, FailNote(host, v_attempt))
                   /\ UNCHANGED v_result
                   /\ IF v_attempt < retry_attempts
                      THEN /\ v_events' = v_events \o <<Event("connect", host, 0, r.clause),
                                                         Event("sleep", host, 0, "none")>>
                           /\ v_attempt' = v_attempt + 1
                           /\ UNCHANGED <<v_pc, v_idx>>
                      ELSE /\ v_events' = Append(v_events, Event("connect", host, 0, r.clause))
                           /\ v_idx' = v_idx + 1
                           /\ v_pc' = "host"
                           /\ UNCHANGED v_attempt
    /\ UNCHANGED <<cfgVars, now, v_target_email, v_mx_hosts, v_empty0>>

\* the candidates are exhausted: smtp_handshake.py:65-75 (ork), 46 (pot)
verify_finish ==
    /\ v_pc = "host"
    /\ v_idx > Len(HostCandidates(v_mx_hosts))
    /\ v_result' = IF impl = "ork" THEN ork_summary(v_errors) ELSE pot_summary(v_errors)
    /\ v_pc' = "done"
    /\ UNCHANGED <<cfgVars, now, tableVars, v_target_email, v_mx_hosts, v_errors, v_idx,
                   v_attempt, v_events, v_conn, v_empty0>>

\* the caller has the result; the frame is gone
verify_return ==
    /\ v_pc = "done"
    /\ v_pc' = "idle"
    /\ v_target_email' = <<>>
    /\ v_mx_hosts' = <<>>
    /\ v_errors' = <<>>
    /\ v_idx' = 0
    /\ v_attempt' = 0
    /\ v_result' = None
    /\ v_events' = <<>>
    /\ v_conn' = None
    /\ v_empty0' = TRUE
    /\ UNCHANGED <<cfgVars, now, tableVars>>

\* time passes
Tick ==
    /\ now < MaxTime
    /\ now' = now + 1
    /\ UNCHANGED <<cfgVars, tableVars, frameVars>>

VerifyCall ==
    /\ \E target_email \in TargetEmails : \E mx_hosts \in SeqsUpTo(Hosts, MaxMxHosts) :
          verify_enter(target_email, mx_hosts)
    /\ UNCHANGED <<rcVars, mxVars, batchVars, connVars, sumVars, runVars, colVars>>

VerifyHost == verify_host /\ UNCHANGED <<rcVars, mxVars, batchVars, connVars, sumVars, runVars, colVars>>

VerifyAttempt ==
    /\ \E r \in AttemptOutcomes : verify_attempt(r)
    /\ UNCHANGED <<rcVars, mxVars, batchVars, connVars, sumVars, runVars, colVars>>

VerifyFinish == verify_finish /\ UNCHANGED <<rcVars, mxVars, batchVars, connVars, sumVars, runVars, colVars>>

VerifyReturn == verify_return /\ UNCHANGED <<rcVars, mxVars, batchVars, connVars, sumVars, runVars, colVars>>

Clock == Tick /\ UNCHANGED <<rcVars, mxVars, batchVars, connVars, sumVars, runVars, colVars>>

NextSmtp ==
    \/ VerifyCall
    \/ VerifyHost
    \/ VerifyAttempt
    \/ VerifyFinish
    \/ VerifyReturn
    \/ Clock

(***************************************************************************)
(* The end of verify on its own: smtp_handshake.py:65-75 applied to the    *)
(* notes a host loop can leave in errors.                                  *)
(***************************************************************************)
\* the ways a candidate host can end without a result: every attempt failed, or
\* it was skipped for a cooldown entry with one of the recorded reasons
HostEndings == {"failed", "timeout", "network error", "server disconnected"}

\* the notes one host leaves: smtp_handshake.py:44 (skip) and 61 (failed attempts)
NotesOf(host, attempts, ending) ==
    IF ending = "failed"
    THEN [a \in 1..attempts |-> FailNote(host, a)]
    ELSE <<SkipNote(host, <<ending>>, 1)>>

\* errors after the loop over one or two candidate hosts
ErrorLists ==
    {NotesOf(<<"mx1">>, a, e1) : a \in 0..MaxNotes, e1 \in HostEndings}
    \cup {NotesOf(<<"mx1">>, a, e1) \o NotesOf(<<"mx2">>, a, e2) :
             a \in 0..MaxNotes, e1 \in HostEndings, e2 \in HostEndings}

InitSummaryIdle ==
    /\ s_errors = <<>>
    /\ s_out = None

\* a checker of either variant whose host loop has ended with errors drawn
InitSummary ==
    /\ impl \in {"ork", "pot"}
    /\ retry_attempts = DefaultRetryAttempts
    /\ max_mx_tries = DEFAULT_MAX_MX_TRIES
    /\ try_starttls = TRUE
    /\ host_failure_cooldown_sec = 0
    /\ now = 0
    /\ _host_unavailable_until = EmptyMap
    /\ _host_unavailable_reason = EmptyMap
    /\ InitFrame
    /\ s_errors \in ErrorLists
    /\ s_out = None

\* smtp_handshake.py:65-75 (ork), 46 (pot)
Summarise ==
    /\ s_out = None
    /\ s_out' = IF impl = "ork" THEN ork_summary(s_errors) ELSE pot_summary(s_errors)
    /\ UNCHANGED <<s_errors, rcVars, mxVars, smtpVars, batchVars, connVars, runVars, colVars>>

NextSummary == Summarise

(***************************************************************************)
(* One _verify_with_host call on its own: the script is drawn, the call    *)
(* runs the conversation against it.                                       *)
(***************************************************************************)
InitConnIdle ==
    /\ c_script = None
    /\ c_out = None

\* SMTPHandshakeChecker.__init__ of either variant, try_starttls drawn, and a
\* script for the call to come
InitConn ==
    /\ impl \in {"ork", "pot"}
    /\ retry_attempts = DefaultRetryAttempts
    /\ max_mx_tries = DEFAULT_MAX_MX_TRIES
    /\ try_starttls \in BOOLEAN
    /\ host_failure_cooldown_sec = 0
    /\ now = 0
    /\ _host_unavailable_until = EmptyMap
    /\ _host_unavailable_reason = EmptyMap
    /\ InitFrame
    /\ c_script \in Scripts(try_starttls)
    /\ c_out = None

\* self._verify_with_host(host, target_email)
Converse ==
    /\ c_out = None
    /\ c_out' = IF impl = "ork"
                THEN _verify_with_host(c_script, try_starttls)
                ELSE pot_verify_with_host(c_script, try_starttls)
    /\ UNCHANGED <<c_script, rcVars, mxVars, smtpVars, batchVars, sumVars, runVars, colVars>>

NextConn == Converse

(***************************************************************************)
(* pot: validator.py, DomainMXChecker and cli.check_emails.                *)
(*                                                                         *)
(* An address is a sequence of characters.                                 *)
(***************************************************************************)
AlphaNum == {"u", "d", "e", "c", "D"}
LocalChars == AlphaNum \cup {".", "+", "-"}    \* [A-Za-z0-9.!#$%&'*+/=?^_`{|}~-]
LabelChars == AlphaNum \cup {"-"}              \* [A-Za-z0-9-]

\* [A-Za-z0-9-]+(?:\.[A-Za-z0-9-]+)+ over the whole of s
MatchesDomain(s) ==
    /\ s # <<>>
    /\ \A j \in 1..Len(s) : s[j] \in LabelChars \cup {"."}
    /\ \E j \in 1..Len(s) : s[j] = "."
    /\ s[1] # "." /\ s[Len(s)] # "."
    /\ \A j \in 1..(Len(s) - 1) : ~(s[j] = "." /\ s[j + 1] = ".")

\* _EMAIL_PATTERN from ^ to the end of s
MatchesToEnd(s) ==
    \E k \in 2..Len(s) :
        /\ s[k] = "@"
        /\ \A j \in 1..(k - 1) : s[j] \in LocalChars
        /\ MatchesDomain(SubSeq(s, k + 1, Len(s)))

\* validator.is_valid_email_format: $ matches at the end and before a final newline
is_valid_email_format(email) ==
    \/ MatchesToEnd(email)
    \/ /\ email # <<>>
       /\ email[Len(email)] = "\n"
       /\ MatchesToEnd(SubSeq(email, 1, Len(email) - 1))

\* str.lower(), one character
LowerChar(c) == IF c = "D" THEN "d" ELSE c

\* str.lower()
Lower(s) == [j \in 1..Len(s) |-> LowerChar(s[j])]

\* email.rsplit("@", 1)[1]
AfterLastAt(email) ==
    LET k == CHOOSE k \in 1..Len(email) :
                 email[k] = "@" /\ \A j \in (k + 1)..Len(email) : email[j] # "@"
    IN  SubSeq(email, k + 1, Len(email))

\* validator.extract_domain
extract_domain(email) ==
    IF ~Contains(email, "@") THEN <<>> ELSE Lower(Strip(AfterLastAt(email)))

\* models.EmailCheckResult
EmailCheckResult(email, domain, domain_status, mx_hosts, smtp_status, smtp_detail) ==
    [email |-> email, domain |-> domain, domain_status |-> domain_status,
     mx_hosts |-> mx_hosts, smtp_status |-> smtp_status, smtp_detail |-> smtp_detail]

DetailBadFormat == <<"bad email format">>    \* cli.py:67
DetailSmtpSkipped == <<"SMTP skipped">>      \* cli.py:75

\* pot DomainMXChecker._lookup_uncached: one query, o is what resolve() does
pot_lookup_uncached(domain, o) ==
    IF o.kind = "answer" THEN AnswerResult(domain, o.answers)
    ELSE IF "NXDOMAIN" \in DnsBases(o.exc)
         THEN MXLookupResult(domain, "domain_missing", <<>>, DetailDomainMissing)
    ELSE IF "NoAnswer" \in DnsBases(o.exc)
         THEN MXLookupResult(domain, "mx_missing", <<>>, DetailMxMissing)
    ELSE IF "NoNameservers" \in DnsBases(o.exc)
         THEN MXLookupResult(domain, "mx_missing", <<>>, DetailNoNameservers)
    ELSE IF "Timeout" \in DnsBases(o.exc)
         THEN MXLookupResult(domain, "mx_missing", <<>>, DetailDnsTimeout)
    ELSE IF "DNSException" \in DnsBases(o.exc)
         THEN MXLookupResult(domain, "mx_missing", <<>>, DetailDnsError(o.exc))
    ELSE Raised

\* pot DomainMXChecker.lookup: the result, the queries issued and the cache after
pot_lookup(domain, outs) ==
    IF domain \in DOMAIN mx_cache
    THEN [result |-> mx_cache[domain], queries |-> 0, cache |-> mx_cache]
    ELSE IF outs = <<>> THEN [result |-> Starved, queries |-> 1, cache |-> mx_cache]
    ELSE LET result == pot_lookup_uncached(domain, outs[1])
         IN  [result |-> result, queries |-> 1,
              cache |-> IF result = Raised THEN mx_cache
                        ELSE CachePut(mx_cache, domain, result)]

\* the addresses check_emails is given
Emails ==
    { <<"u", "@", "d", ".", "c">>,
      <<"u", "@", "e", ".", "c">>,
      <<"u", "@", "D", ".", "c", "\n">>,
      <<"u", "@", "d">>,
      <<"u", "d", ".", "c">> }

\* one call check_emails made: a lookup (name: the domain; hosts and status: what
\* the resolver returned), a verify (name: the address; hosts: the list passed)
\* or the sleep between domains
Call(ev, i, name, hosts, status) ==
    [ev |-> ev, i |-> i, name |-> name, hosts |-> hosts, status |-> status]

InitBatch ==
    /\ b_pc = "idle"
    /\ b_emails = <<>>
    /\ b_i = 0
    /\ b_mx = None
    /\ b_results = <<>>
    /\ b_log = <<>>

\* cli.py:37-57: check_emails is entered and builds its two checkers
check_emails_enter(emails, mmt) ==
    /\ b_pc = "idle"
    /\ b_emails' = emails
    /\ b_i' = 1
    /\ b_results' = <<>>
    /\ b_log' = <<>>
    /\ b_pc' = "loop"
    /\ mx_cache' = EmptyMap
    /\ impl' = "pot"
    /\ max_mx_tries' = mmt
    /\ retry_attempts' = DefaultRetryAttempts
    /\ try_starttls' = TRUE
    /\ host_failure_cooldown_sec' = 0
    /\ UNCHANGED <<b_mx, dns_retries, mx_last, mx_call, now, tableVars, frameVars>>

\* cli.py:59-70 with the append left out
check_emails_invalid_drop ==
    /\ b_pc = "loop"
    /\ b_i <= Len(b_emails)
    /\ ~is_valid_email_format(b_emails[b_i])
    /\ b_i' = b_i + 1
    /\ UNCHANGED <<b_pc, b_emails, b_mx, b_log, b_results, mxVars, smtpVars>>

\* cli.py:58-70 with an address of bad format recorded as undeliverable
check_emails_invalid_undeliverable ==
    /\ b_pc = "loop"
    /\ b_i <= Len(b_emails)
    /\ ~is_valid_email_format(b_emails[b_i])
    /\ LET email == b_emails[b_i]
       IN  b_results' = Append(b_results,
                            EmailCheckResult(email, extract_domain(email), "domain_missing",
                                             <<>>, "undeliverable", DetailBadFormat))
    /\ b_i' = b_i + 1
    /\ UNCHANGED <<b_pc, b_emails, b_mx, b_log, mxVars, smtpVars>>

\* cli.py:58-70: an address of bad format gets its result at once
check_emails_invalid ==
    /\ b_pc = "loop"
    /\ b_i <= Len(b_emails)
    /\ ~is_valid_email_format(b_emails[b_i])
    /\ LET email == b_emails[b_i]
       IN  b_results' = Append(b_results,
                            EmailCheckResult(email, extract_domain(email), "domain_missing",
                                             <<>>, "unknown", DetailBadFormat))
    /\ b_i' = b_i + 1
    /\ UNCHANGED <<b_pc, b_emails, b_mx, b_log, mxVars, smtpVars>>

\* cli.py:72-92 with verify called whatever the status
check_emails_lookup_always_verify(outs) ==
    /\ b_pc = "loop"
    /\ b_i <= Len(b_emails)
    /\ is_valid_email_format(b_emails[b_i])
    /\ LET email == b_emails[b_i]
           domain == extract_domain(email)
           r == pot_lookup(domain, outs)
           mx_result == r.result
       IN  /\ mx_result # Starved
           /\ r.queries = Len(outs)
           /\ mx_result # Raised
           /\ mx_cache' = r.cache
           /\ b_mx' = mx_result
           /\ b_pc' = "verify"
           /\ b_log' = b_log \o <<Call("lookup", b_i, domain, mx_result.mx_hosts,
                                       mx_result.status),
                                  Call("verify", b_i, email, mx_result.mx_hosts, "")>>
           /\ verify_enter(email, mx_result.mx_hosts)
           /\ UNCHANGED <<b_i, b_results>>
    /\ UNCHANGED <<b_emails, dns_retries, mx_last, mx_call>>

\* cli.py:58-59, 72-92: a well-formed address: the lookup, then either the call
\* of verify or, for a status other than valid, the result, the pause and the
\* next address
check_emails_lookup(outs) ==
    /\ b_pc = "loop"
    /\ b_i <= Len(b_emails)
    /\ is_valid_email_format(b_emails[b_i])
    /\ LET email == b_emails[b_i]
           domain == extract_domain(email)
           r == pot_lookup(domain, outs)
           mx_result == r.result
       IN  /\ mx_result # Starved
           /\ r.queries = Len(outs)
           /\ mx_cache' = r.cache
           /\ IF mx_result = Raised
              THEN /\ b_pc' = "raised"
                   /\ UNCHANGED <<b_mx, b_i, b_results, b_log, smtpVars>>
              ELSE IF mx_result.status = "valid"
              THEN /\ b_mx' = mx_result
                   /\ b_pc' = "verify"
                   /\ b_log' = b_log \o <<Call("lookup", b_i, domain, mx_result.mx_hosts,
                                               mx_result.status),
                                          Call("verify", b_i, email, mx_result.mx_hosts, "")>>
                   /\ verify_enter(email, mx_result.mx_hosts)
                   /\ UNCHANGED <<b_i, b_results>>
              ELSE /\ b_results' = Append(b_results,
                                       EmailCheckResult(email, domain, mx_result.status,
                                                        mx_result.mx_hosts, "unknown",
                                                        DetailSmtpSkipped))
                   /\ b_log' = b_log \o <<Call("lookup", b_i, domain, mx_result.mx_hosts,
                                               mx_result.status),
                                          Call("sleep", b_i, <<>>, <<>>, "")>>
                   /\ b_i' = b_i + 1
                   /\ UNCHANGED <<b_pc, b_mx, smtpVars>>
    /\ UNCHANGED <<b_emails, dns_retries, mx_last, mx_call>>

\* cli.py:78-92: verify has returned (or raised): the result, the pause and the
\* next address
check_emails_append ==
    /\ b_pc = "verify"
    /\ v_pc \in {"done", "raised"}
    /\ IF v_pc = "raised"
       THEN /\ b_pc' = "raised"
            /\ UNCHANGED <<b_mx, b_i, b_results, b_log, smtpVars>>
       ELSE /\ b_results' = Append(b_results,
                                EmailCheckResult(b_emails[b_i], extract_domain(b_emails[b_i]),
                                                 b_mx.status, b_mx.mx_hosts,
                                                 v_result.status, v_result.detail))
            /\ b_log' = Append(b_log, Call("sleep", b_i, <<>>, <<>>, ""))
            /\ b_i' = b_i + 1
            /\ b_mx' = None
            /\ b_pc' = "loop"
            /\ verify_return
    /\ UNCHANGED <<b_emails, mxVars>>

\* cli.py:94: return results
check_emails_return ==
    /\ b_pc = "loop"
    /\ b_i > Len(b_emails)
    /\ b_pc' = "done"
    /\ UNCHANGED <<b_emails, b_i, b_mx, b_results, b_log, mxVars, smtpVars>>

CheckEmails ==
    /\ \E emails \in SeqsUpTo(Emails, MaxEmails) : \E mmt \in 1..DEFAULT_MAX_MX_TRIES :
          check_emails_enter(emails, mmt)
    /\ UNCHANGED <<rcVars, connVars, sumVars, runVars, colVars>>

CheckInvalid == check_emails_invalid /\ UNCHANGED <<rcVars, connVars, sumVars, runVars, colVars>>

CheckLookup ==
    /\ \E outs \in SeqsUpTo(DnsOutcomes, 1) : check_emails_lookup(outs)
    /\ UNCHANGED <<rcVars, connVars, sumVars, runVars, colVars>>

CheckAppend == check_emails_append /\ UNCHANGED <<rcVars, connVars, sumVars, runVars, colVars>>

CheckReturn == check_emails_return /\ UNCHANGED <<rcVars, connVars, sumVars, runVars, colVars>>

NextBatch ==
    \/ CheckEmails
    \/ CheckInvalid
    \/ CheckLookup
    \/ VerifyHost
    \/ VerifyAttempt
    \/ VerifyFinish
    \/ CheckAppend
    \/ CheckReturn

(***************************************************************************)
(* gui/pot_gui.py: ProcessRunner.  The GUI thread calls run(), stop() and  *)
(* poll_output(); every run() that gets past its check starts a worker     *)
(* thread, and worker k spawns child process k.  A step is one read or one *)
(* write of self._proc, or one blocking call.  The lines a child prints    *)
(* are left out of the queue; its closing message is kept.                 *)
(***************************************************************************)
MaxWorkers == 2

NoProc == 0                                     \* pot_gui.py:23: None
Workers == 1..MaxWorkers
Spawned == {w \in Workers : w_pc[w] # "unborn"}
Message(kind, c) == [kind |-> kind, proc |-> c] \* pot_gui.py:43, 45
Ended(op, out) == [op |-> op, out |-> out]

\* ProcessRunner.__init__, before the first run()
InitRunner ==
    /\ _proc = NoProc
    /\ _thread = NoProc
    /\ _queue = <<>>
    /\ g_pc = "idle"
    /\ g_last = Ended("none", "none")
    /\ w_pc = [w \in Workers |-> "unborn"]
    /\ w_handle = [w \in Workers |-> NoProc]
    /\ child = [c \in Workers |-> "none"]

\* the state ProcessRunner does not touch
RunnerRest == <<rcVars, mxVars, smtpVars, batchVars, connVars, sumVars, colVars>>

\* pot_gui.py:26-27, 65-66: run() is called; is_running reads self._proc for
\* `self._proc is not None`
run_enter ==
    /\ g_pc = "idle"
    /\ Spawned # Workers
    /\ g_pc' = IF _proc = NoProc THEN "run_start" ELSE "run_poll"
    /\ UNCHANGED <<_proc, _thread, _queue, g_last, w_pc, w_handle, child>>
    /\ UNCHANGED RunnerRest

\* pot_gui.py:27-28, 66: is_running reads self._proc again for .poll(); run
\* raises when the child has not exited
run_poll ==
    /\ g_pc = "run_poll"
    /\ IF _proc = NoProc
       THEN g_pc' = "idle" /\ g_last' = Ended("run", "AttributeError")
       ELSE IF child[_proc] = "alive"
       THEN g_pc' = "idle" /\ g_last' = Ended("run", "RuntimeError")
       ELSE g_pc' = "run_start" /\ UNCHANGED g_last
    /\ UNCHANGED <<_proc, _thread, _queue, w_pc, w_handle, child>>
    /\ UNCHANGED RunnerRest

\* pot_gui.py:50-51: the worker thread is created and started
run_start ==
    /\ g_pc = "run_start"
    /\ LET w == CHOOSE w \in Workers : w \notin Spawned /\ \A u \in Workers : u < w => u \in Spawned
       IN  /\ _thread' = w
           /\ w_pc' = [w_pc EXCEPT ![w] = "popen"]
    /\ g_pc' = "idle"
    /\ g_last' = Ended("run", "started")
    /\ UNCHANGED <<_proc, _queue, w_handle, child>>
    /\ UNCHANGED RunnerRest

\* pot_gui.py:61-62: stop() is called and reads self._proc for its truth value
stop_enter ==
    /\ g_pc = "idle"
    /\ IF _proc = NoProc
       THEN g_last' = Ended("stop", "returned") /\ UNCHANGED g_pc
       ELSE g_pc' = "stop_poll" /\ UNCHANGED g_last
    /\ UNCHANGED <<_proc, _thread, _queue, w_pc, w_handle, child>>
    /\ UNCHANGED RunnerRest

\* pot_gui.py:62: stop() reads self._proc again for .poll()
stop_poll ==
    /\ g_pc = "stop_poll"
    /\ IF _proc = NoProc
       THEN g_pc' = "idle" /\ g_last' = Ended("stop", "AttributeError")
       ELSE IF child[_proc] = "alive"
       THEN g_pc' = "stop_terminate" /\ UNCHANGED g_last
       ELSE g_pc' = "idle" /\ g_last' = Ended("stop", "returned")
    /\ UNCHANGED <<_proc, _thread, _queue, w_pc, w_handle, child>>
    /\ UNCHANGED RunnerRest

\* pot_gui.py:63: stop() reads self._proc a third time and terminates that child
stop_terminate ==
    /\ g_pc = "stop_terminate"
    /\ g_pc' = "idle"
    /\ IF _proc = NoProc
       THEN g_last' = Ended("stop", "AttributeError") /\ UNCHANGED child
       ELSE /\ g_last' = Ended("stop", "terminated")
            /\ child' = [child EXCEPT ![_proc] = "exited"]
    /\ UNCHANGED <<_proc, _thread, _queue, w_pc, w_handle>>
    /\ UNCHANGED RunnerRest

\* pot_gui.py:53-59: poll_output hands every queued chunk to the callback
poll_output ==
    /\ g_pc = "idle"
    /\ _queue # <<>>
    /\ _queue' = <<>>
    /\ UNCHANGED <<_proc, _thread, g_pc, g_last, w_pc, w_handle, child>>
    /\ UNCHANGED RunnerRest

\* pot_gui.py:44-45: an exception in the worker puts the error message
worker_except(w) ==
    /\ _queue' = Append(_queue, Message("process error", w))
    /\ w_pc' = [w_pc EXCEPT ![w] = "finally"]

\* pot_gui.py:32-38: Popen spawns the child and the worker stores the object in
\* self._proc, or Popen raises
worker_popen(w, spawns) ==
    /\ w_pc[w] = "popen"
    /\ IF spawns
       THEN /\ _proc' = w
            /\ child' = [child EXCEPT ![w] = "alive"]
            /\ w_pc' = [w_pc EXCEPT ![w] = "assert"]
            /\ UNCHANGED _queue
       ELSE worker_except(w) /\ UNCHANGED <<_proc, child>>
    /\ UNCHANGED <<_thread, g_pc, g_last, w_handle>>
    /\ UNCHANGED RunnerRest

\* pot_gui.py:39: assert self._proc.stdout is not None
worker_assert(w) ==
    /\ w_pc[w] = "assert"
    /\ IF _proc = NoProc
       THEN worker_except(w)
       ELSE w_pc' = [w_pc EXCEPT ![w] = "iter"] /\ UNCHANGED _queue
    /\ UNCHANGED <<_proc, _thread, g_pc, g_last, w_handle, child>>
    /\ UNCHANGED RunnerRest

\* pot_gui.py:40: `for line in self._proc.stdout` takes the stream of the object
\* self._proc holds now
worker_iter(w) ==
    /\ w_pc[w] = "iter"
    /\ IF _proc = NoProc
       THEN worker_except(w) /\ UNCHANGED w_handle
       ELSE /\ w_handle' = [w_handle EXCEPT ![w] = _proc]
            /\ w_pc' = [w_pc EXCEPT ![w] = "reading"]
            /\ UNCHANGED _queue
    /\ UNCHANGED <<_proc, _thread, g_pc, g_last, child>>
    /\ UNCHANGED RunnerRest

\* pot_gui.py:40-41: the stream ends when its child has exited
worker_eof(w) ==
    /\ w_pc[w] = "reading"
    /\ child[w_handle[w]] = "exited"
    /\ w_pc' = [w_pc EXCEPT ![w] = "wait"]
    /\ UNCHANGED <<_proc, _thread, _queue, g_pc, g_last, w_handle, child>>
    /\ UNCHANGED RunnerRest

\* pot_gui.py:42: `self._proc.wait()` is called on the object self._proc holds now
worker_wait(w) ==
    /\ w_pc[w] = "wait"
    /\ IF _proc = NoProc
       THEN worker_except(w) /\ UNCHANGED w_handle
       ELSE /\ w_handle' = [w_handle EXCEPT ![w] = _proc]
            /\ w_pc' = [w_pc EXCEPT ![w] = "waiting"]
            /\ UNCHANGED _queue
    /\ UNCHANGED <<_proc, _thread, g_pc, g_last, child>>
    /\ UNCHANGED RunnerRest

\* pot_gui.py:42-43: wait() returns once that child has exited; the exit code is
\* queued
worker_waited(w) ==
    /\ w_pc[w] = "waiting"
    /\ child[w_handle[w]] = "exited"
    /\ _queue' = Append(_queue, Message("exit code", w_handle[w]))
    /\ w_pc' = [w_pc EXCEPT ![w] = "finally"]
    /\ UNCHANGED <<_proc, _thread, g_pc, g_last, w_handle, child>>
    /\ UNCHANGED RunnerRest

\* pot_gui.py:46-47: finally: self._proc = None
worker_finally(w) ==
    /\ w_pc[w] = "finally"
    /\ _proc' = NoProc
    /\ w_pc' = [w_pc EXCEPT ![w] = "done"]
    /\ UNCHANGED <<_thread, _queue, g_pc, g_last, w_handle, child>>
    /\ UNCHANGED RunnerRest

\* a child process exits by itself
child_exit(c) ==
    /\ child[c] = "alive"
    /\ child' = [child EXCEPT ![c] = "exited"]
    /\ UNCHANGED <<_proc, _thread, _queue, g_pc, g_last, w_pc, w_handle>>
    /\ UNCHANGED RunnerRest

NextRunner ==
    \/ run_enter
    \/ run_poll
    \/ run_start
    \/ stop_enter
    \/ stop_poll
    \/ stop_terminate
    \/ poll_output
    \/ \E w \in Workers : \E spawns \in BOOLEAN : worker_popen(w, spawns)
    \/ \E w \in Workers : worker_assert(w)
    \/ \E w \in Workers : worker_iter(w)
    \/ \E w \in Workers : worker_eof(w)
    \/ \E w \in Workers : worker_wait(w)
    \/ \E w \in Workers : worker_waited(w)
    \/ \E w \in Workers : worker_finally(w)
    \/ \E c \in Workers : child_exit(c)

(***************************************************************************)
(* pot: validator.collect_emails, applied to lists of raw strings.         *)
(***************************************************************************)
MaxRaw == 2

\* validator.normalize_email
normalize_email(raw) == Lower(Strip(raw))

\* validator.collect_emails, the loop over the raw strings left
RECURSIVE collect_emails_from(_, _, _)
collect_emails_from(raws, seen, out) ==
    IF raws = <<>> THEN out
    ELSE LET email == normalize_email(Head(raws))
         IN  IF email = <<>> \/ email \in seen
             THEN collect_emails_from(Tail(raws), seen, out)
             ELSE collect_emails_from(Tail(raws), seen \cup {email}, Append(out, email))

\* validator.collect_emails with the command-line strings ahead of the file's
collect_emails_cli_first(cli, file) == collect_emails_from(cli \o file, {}, <<>>)

\* validator.collect_emails
collect_emails(cli, file) == collect_emails_from(file \o cli, {}, <<>>)

\* the raw strings collect_emails is given: addresses in either case, with and
\* without surrounding white space, a string of bad format, blank strings
RawEmails ==
    { <<"u", "@", "d", ".", "c">>,
      <<"u", "@", "D", ".", "c">>,
      <<" ", "u", "@", "d", ".", "c", "\n">>,
      <<"e", "@", "d", ".", "c">>,
      <<"u", "d">>,
      <<" ">>,
      <<>> }

InitCollectIdle ==
    /\ cli_emails = <<>>
    /\ file_emails = <<>>
    /\ ordered = <<>>
    /\ col_pc = "idle"

\* the two lists a call is about to be given
InitCollect ==
    /\ cli_emails \in SeqsUpTo(RawEmails, MaxRaw)
    /\ file_emails \in SeqsUpTo(RawEmails, MaxRaw)
    /\ ordered = <<>>
    /\ col_pc = "idle"

\* collect_emails(cli_emails=..., file_emails=...)
Collect ==
    /\ col_pc = "idle"
    /\ ordered' = collect_emails(cli_emails, file_emails)
    /\ col_pc' = "done"
    /\ UNCHANGED <<cli_emails, file_emails, rcVars, mxVars, smtpVars, batchVars, connVars,
                   sumVars, runVars>>

NextCollect == Collect

(***************************************************************************)
(* Specifications.                                                         *)
(***************************************************************************)
NextRcpt == InterpretRcpt

\* each specification starts one component; the others stay as constructed
InitSpecRcpt == InitRcpt /\ InitMxIdle /\ InitSmtpIdle /\ InitBatch /\ InitConnIdle /\ InitSummaryIdle /\ InitRunner /\ InitCollectIdle
InitSpecMx == InitMx /\ InitRcptIdle /\ InitSmtpIdle /\ InitBatch /\ InitConnIdle /\ InitSummaryIdle /\ InitRunner /\ InitCollectIdle
InitSpecSmtp == InitSmtp /\ InitRcptIdle /\ InitMxIdle /\ InitBatch /\ InitConnIdle /\ InitSummaryIdle /\ InitRunner /\ InitCollectIdle
InitSpecBatch == InitBatch /\ InitRcptIdle /\ InitMxIdle /\ InitSmtpIdle /\ InitConnIdle /\ InitSummaryIdle /\ InitRunner /\ InitCollectIdle
InitSpecConn == InitConn /\ InitRcptIdle /\ InitMxIdle /\ InitBatch /\ InitSummaryIdle /\ InitRunner /\ InitCollectIdle
InitSpecSummary == InitSummary /\ InitRcptIdle /\ InitMxIdle /\ InitBatch /\ InitConnIdle /\ InitRunner /\ InitCollectIdle

SpecRcpt == InitSpecRcpt /\ [][NextRcpt]_vars

SpecMx == InitSpecMx /\ [][NextMx]_vars

SpecSmtp == InitSpecSmtp /\ [][NextSmtp]_vars

SpecBatch == InitSpecBatch /\ [][NextBatch]_vars

SpecConn == InitSpecConn /\ [][NextConn]_vars

SpecSummary == InitSpecSummary /\ [][NextSummary]_vars

InitSpecRunner ==
    InitRunner /\ InitRcptIdle /\ InitMxIdle /\ InitSmtpIdle /\ InitBatch /\ InitConnIdle
               /\ InitSummaryIdle /\ InitCollectIdle

SpecRunner == InitSpecRunner /\ [][NextRunner]_vars

InitSpecCollect ==
    InitCollect /\ InitRcptIdle /\ InitMxIdle /\ InitSmtpIdle /\ InitBatch /\ InitConnIdle
                /\ InitSummaryIdle /\ InitRunner

SpecCollect == InitSpecCollect /\ [][NextCollect]_vars


(***************************************************************************)
(* The claims.                                                             *)
(***************************************************************************)

\* the classification table of the specification, section 4.2
RcptTableStatus(code) ==
    IF code \in {250, 251} THEN "deliverable"
    ELSE IF code \in {550, 551, 552, 553, 554} THEN "undeliverable"
    ELSE IF code \in {450, 451, 452, 421} THEN "tempfail"
    ELSE "unknown"

RcptRawDetail == <<ToString(rc_code), " ">> \o _decode(rc_msg)

\* C2 as stated: the classification follows the table for every code, the result
\* carries the code, a policy/block detail carries the prefix, and otherwise the
\* detail is exactly "<code> <text>".
C2_AsStated ==
    rc_result # None =>
        /\ rc_result.status = RcptTableStatus(rc_code)
        /\ rc_result.code = rc_code
        /\ IF rc_result.status = "unknown" /\ rc_code >= 500
           THEN Head(rc_result.detail) = "policy/block: "
           ELSE rc_result.detail = RcptRawDetail

\* C2 amended: as C2, but the detail is "<code> <text>" with leading and trailing
\* white space stripped (the code alone when the reply text is empty), and the
\* policy/block detail is the prefix followed by that stripped text.
C2_RcptTable ==
    rc_result # None =>
        /\ rc_result.status = RcptTableStatus(rc_code)
        /\ rc_result.code = rc_code
        /\ IF rc_result.status = "unknown" /\ rc_code >= 500
           THEN rc_result.detail = <<"policy/block: ">> \o Strip(RcptRawDetail)
           ELSE rc_result.detail = Strip(RcptRawDetail)

\* a 550 whose reply text ends in white space has been classified
C2_Witness ==
    /\ rc_result # None
    /\ rc_code = 550
    /\ rc_msg = [bytes |-> TRUE, data |-> <<"a", " ">>]
    /\ rc_result.status = "undeliverable"
    /\ rc_result.detail = <<"550", " ", "a">>

\* the transient-failure markers of the specification, section 3
TransientMarkers == {DetailDnsTimeout, DetailNoNameservers}

\* C3: once a lookup of a domain returned a cacheable result, the next lookup of
\* that domain (hence every later one) returns the identical result and issues no
\* DNS query.
C3_LookupIdempotent ==
    (mx_call # None /\ mx_call.prev # None /\ mx_call.prev.detail \notin TransientMarkers)
        => /\ mx_call.result = mx_call.prev
           /\ mx_call.queries = 0

\* a second lookup of a domain whose first lookup was valid, answered from the cache
C3_Witness ==
    /\ mx_call # None
    /\ mx_call.prev # None
    /\ mx_call.prev.status = "valid"
    /\ mx_call.queries = 0
    /\ mx_call.result = mx_call.prev

\* what one DNS outcome yields when it ends a lookup
FreshYield(domain, o) ==
    IF o.kind = "answer" THEN AnswerResult(domain, o.answers)
    ELSE IF o.exc = "NXDOMAIN"
         THEN MXLookupResult(domain, "domain_missing", <<>>, DetailDomainMissing)
    ELSE IF o.exc = "NoAnswer"
         THEN MXLookupResult(domain, "mx_missing", <<>>, DetailMxMissing)
    ELSE IF o.exc = "NoNameservers"
         THEN MXLookupResult(domain, "mx_missing", <<>>, DetailNoNameservers)
    ELSE IF o.exc \in {"Timeout", "LifetimeTimeout"}
         THEN MXLookupResult(domain, "mx_missing", <<>>, DetailDnsTimeout)
    ELSE MXLookupResult(domain, "mx_missing", <<>>, DetailDnsError(o.exc))

\* C4: after a lookup that returned a non-cacheable result, the next lookup of the
\* same domain issues a fresh DNS query and returns what that query yields.
C4_FreshQueryAfterTransient ==
    (mx_call # None /\ mx_call.prev # None /\ mx_call.prev.detail \in TransientMarkers)
        => /\ mx_call.queries >= 1
           /\ mx_call.outs # <<>>
           /\ mx_call.result = FreshYield(mx_call.domain, mx_call.outs[Len(mx_call.outs)])

\* a lookup that follows a DNS timeout of the same domain and returns valid
C4_Witness ==
    /\ mx_call # None
    /\ mx_call.prev # None
    /\ mx_call.prev.detail = DetailDnsTimeout
    /\ mx_call.queries >= 1
    /\ mx_call.result.status = "valid"

\* C5: no cache entry carries a transient-failure marker, and the entry under key
\* d is a result for domain d.
C5_CacheInvariant ==
    \A d \in DOMAIN mx_cache :
        /\ mx_cache[d].detail \notin TransientMarkers
        /\ mx_cache[d].domain = d

\* a lookup has just ended in a transient failure while another domain is cached
C5_Witness ==
    /\ mx_call # None
    /\ mx_call.result.detail \in TransientMarkers
    /\ mx_call.domain \notin DOMAIN mx_cache
    /\ DOMAIN mx_cache # {}

\* the host verify is looking at, at the head of its loop
AtHost(h) ==
    /\ v_pc = "host"
    /\ v_idx <= Len(HostCandidates(v_mx_hosts))
    /\ HostCandidates(v_mx_hosts)[v_idx] = h

\* the step that follows skipped host h with a note of `left` seconds and its reason
SkippedInStep(h) ==
    /\ v_events' = Append(v_events,
                       Event("skip", h, _host_unavailable_until[h] - now, "none"))
    /\ v_errors' = Append(v_errors,
                       SkipNote(h, _host_unavailable_reason[h],
                                _host_unavailable_until[h] - now))
    /\ v_idx' = v_idx + 1
    /\ v_pc' = "host"
    /\ UNCHANGED <<_host_unavailable_until, _host_unavailable_reason>>

\* C6: when verify reaches a host whose cooldown entry is unexpired (now earlier
\* than unavailable-until), it makes no connection attempt: it appends the skip
\* note with the remaining seconds and the recorded reason and goes on to the
\* next candidate.
C6_CooldownSkips ==
    [][\A h \in Hosts :
          (AtHost(h) /\ h \in DOMAIN _host_unavailable_until
                     /\ now < _host_unavailable_until[h] /\ now' = now)
              => SkippedInStep(h)]_vars

\* a call has just skipped a host that failed with a timeout, one second left
C6_Witness ==
    /\ v_events # <<>>
    /\ v_events[Len(v_events)] = Event("skip", <<"mx1">>, 1, "none")
    /\ v_errors[Len(v_errors)] = SkipNote(<<"mx1">>, <<"timeout">>, 1)
    /\ \A i \in 1..Len(v_events) : v_events[i].ev # "connect"

\* C7 as stated: a host whose entry has unavailable-until = T is still skipped by a
\* call that consults the table at any t <= T, t = T included.
C7_AsStated ==
    [][\A h \in Hosts :
          (AtHost(h) /\ h \in DOMAIN _host_unavailable_until
                     /\ now <= _host_unavailable_until[h] /\ now' = now)
              => SkippedInStep(h)]_vars

\* C7 amended: a call that consults the table at t < T skips the host; a call at
\* t >= T, t = T included, removes the entry and goes on to connect to the host
\* (when retry_attempts >= 1).
C7_EligibleFromT ==
    [][\A h \in Hosts :
          (AtHost(h) /\ h \in DOMAIN _host_unavailable_until /\ now' = now)
              => IF now < _host_unavailable_until[h]
                 THEN SkippedInStep(h)
                 ELSE /\ h \notin DOMAIN _host_unavailable_until'
                      /\ h \notin DOMAIN _host_unavailable_reason'
                      /\ v_errors' = v_errors
                      /\ retry_attempts >= 1 => (v_pc' = "attempt" /\ v_idx' = v_idx)]_vars

\* a call found the entry of a host expired at exactly its timestamp and is about
\* to connect to the host
C7_Witness ==
    /\ v_pc = "attempt"
    /\ v_events # <<>>
    /\ v_events[Len(v_events)] = Event("purge", HostCandidates(v_mx_hosts)[v_idx], 0, "none")
    /\ HostCandidates(v_mx_hosts)[v_idx] \notin DOMAIN _host_unavailable_until

\* the attempts of the call so far, as connect events
ConnectEvents == {i \in 1..Len(v_events) : v_events[i].ev = "connect"}

\* C8 (scenario D): empty cooldown table, one candidate host, every attempt on it
\* times out: verify returns unknown, the detail lists the failed attempts and
\* carries the port-25 hint, and the host has a cooldown entry on return.
C8_ScenarioD ==
    (/\ impl = "ork"
     /\ v_pc = "done"
     /\ v_empty0
     /\ Len(v_mx_hosts) = 1
     /\ host_failure_cooldown_sec > 0
     /\ ConnectEvents # {}
     /\ \A i \in ConnectEvents : v_events[i].clause = "timeout")
        => /\ v_result.status = "unknown"
           /\ \A k \in 1..retry_attempts :
                 Contains(v_result.detail, ToString(k))
           /\ Contains(v_result.detail, HintPort25[1])
           /\ v_mx_hosts[1] \in DOMAIN _host_unavailable_until

\* the empty-list result of verify
NoMxHostsResult == SMTPCheckResult("unknown", DetailNoMxHosts, NoCode)

\* C9: verify with an empty mx_hosts returns unknown (no MX hosts, no code) at once:
\* no connection attempt, no sleep, and the cooldown table as it was.
C9_EmptyHostList ==
    [][(v_pc' # "idle" /\ v_mx_hosts' = <<>>)
          => /\ v_pc' = "done"
             /\ v_result' = NoMxHostsResult
             /\ v_events' = <<>>
             /\ UNCHANGED <<_host_unavailable_until, _host_unavailable_reason>>]_vars

\* verify returned for an empty list while a host was in cooldown
C9_Witness ==
    /\ v_pc = "done"
    /\ v_mx_hosts = <<>>
    /\ v_result = NoMxHostsResult
    /\ DOMAIN _host_unavailable_until # {}

\* C1: check_emails returns exactly one EmailCheckResult per input address, in
\* input order, whatever DNS and SMTP do: no exception leaves the function, the
\* results so far are those of the addresses processed so far, and on return
\* there are as many results as addresses, result[i].email = emails[i].
C1_OneResultPerAddress ==
    /\ b_pc # "raised"
    /\ v_pc # "raised"
    /\ b_pc \in {"loop", "verify", "done"} =>
          /\ Len(b_results) = b_i - 1
          /\ Len(b_results) <= Len(b_emails)
          /\ \A i \in 1..Len(b_results) : b_results[i].email = b_emails[i]
    /\ b_pc = "done" => Len(b_results) = Len(b_emails)

\* check_emails has returned for two addresses: every SMTP attempt for the first
\* failed, the second has a bad format, and each has its result
C1_Witness ==
    /\ b_pc = "done"
    /\ Len(b_emails) = 2
    /\ Len(b_results) = 2
    /\ b_results[1].email = b_emails[1]
    /\ b_results[1].domain_status = "valid"
    /\ Contains(b_results[1].smtp_detail, " failed")
    /\ b_results[2].email = b_emails[2]
    /\ b_results[2].smtp_detail = DetailBadFormat

\* the calls of kind ev that check_emails made for the address at position i
CallsFor(ev, i) == {k \in 1..Len(b_log) : b_log[k].ev = ev /\ b_log[k].i = i}

\* C10: for a well-formed address, check_emails calls verify exactly once, with the
\* address and the host list the resolver returned, if and only if the resolver
\* status is valid; otherwise no verify call is made, no verify is running for it,
\* and its result has smtp_status unknown and detail "SMTP skipped".
C10_VerifyIffValid ==
    /\ v_pc # "idle" =>
          /\ b_pc = "verify"
          /\ b_mx.status = "valid"
          /\ CallsFor("verify", b_i) # {}
          /\ v_target_email = b_emails[b_i]
    /\ \A i \in 1..Len(b_results) :
          is_valid_email_format(b_emails[i]) =>
             /\ Cardinality(CallsFor("lookup", i)) = 1
             /\ \A k \in CallsFor("lookup", i) :
                   /\ b_results[i].domain_status = b_log[k].status
                   /\ IF b_log[k].status = "valid"
                      THEN /\ Cardinality(CallsFor("verify", i)) = 1
                           /\ \A c \in CallsFor("verify", i) :
                                 /\ b_log[c].name = b_emails[i]
                                 /\ b_log[c].hosts = b_log[k].hosts
                      ELSE /\ CallsFor("verify", i) = {}
                           /\ b_results[i].smtp_status = "unknown"
                           /\ b_results[i].smtp_detail = DetailSmtpSkipped

\* scenario B and its opposite in one run: the domain of the first address has no
\* MX and SMTP was skipped, the second address was verified once and is deliverable
C10_Witness ==
    /\ b_pc = "done"
    /\ Len(b_results) = 2
    /\ b_results[1].domain_status = "mx_missing"
    /\ b_results[1].smtp_detail = DetailSmtpSkipped
    /\ CallsFor("verify", 1) = {}
    /\ b_results[2].domain_status = "valid"
    /\ b_results[2].smtp_status = "deliverable"
    /\ Cardinality(CallsFor("verify", 2)) = 1

\* the step check_emails takes from the head of its loop at an address of bad format
AtBadFormat ==
    /\ b_pc = "loop"
    /\ b_i <= Len(b_emails)
    /\ ~is_valid_email_format(b_emails[b_i])

\* C11: for an address that fails the syntax check, check_emails appends a result
\* with domain_status domain_missing, no MX hosts, smtp_status unknown and the
\* bad-format detail, and does no network I/O for it: no lookup and no verify is
\* called (nothing is logged, no verify starts) and the MX cache is unchanged.
C11_BadFormatNoIO ==
    [][AtBadFormat =>
          /\ Len(b_results') = Len(b_results) + 1
          /\ SubSeq(b_results', 1, Len(b_results)) = b_results
          /\ LET r == b_results'[Len(b_results')]
             IN  /\ r.email = b_emails[b_i]
                 /\ r.domain_status = "domain_missing"
                 /\ r.mx_hosts = <<>>
                 /\ r.smtp_status = "unknown"
                 /\ r.smtp_detail = DetailBadFormat
          /\ b_log' = b_log
          /\ mx_cache' = mx_cache
          /\ v_pc' = "idle"
          /\ v_events' = v_events]_vars

\* an address of bad format got its result after an address whose domain is in
\* the MX cache, and no lookup or verify was made for it
C11_Witness ==
    /\ Len(b_results) = 2
    /\ ~is_valid_email_format(b_emails[2])
    /\ b_results[2].smtp_detail = DetailBadFormat
    /\ DOMAIN mx_cache # {}
    /\ CallsFor("lookup", 2) = {}
    /\ CallsFor("verify", 2) = {}
    /\ CallsFor("lookup", 1) # {}

\* the lookup that returned last asked DNS and its last query was answered with records
AnsweredLast ==
    /\ mx_call # None
    /\ mx_call.queries >= 1
    /\ mx_call.outs[mx_call.queries].kind = "answer"

\* hosts lists the records of answers at the positions in kept, each once, by
\* ascending preference, records of equal preference in answer order
OrderedHostsOf(hosts, answers, kept) ==
    /\ Len(hosts) = Cardinality(kept)
    /\ \E f \in [1..Len(hosts) -> kept] :
          /\ \A k, l \in 1..Len(hosts) : k # l => f[k] # f[l]
          /\ \A k \in 1..Len(hosts) : hosts[k] = RStripDot(answers[f[k]].exchange)
          /\ \A k, l \in 1..Len(hosts) :
                k < l => \/ answers[f[k]].preference < answers[f[l]].preference
                         \/ /\ answers[f[k]].preference = answers[f[l]].preference
                            /\ f[k] < f[l]

\* C12 as stated: whenever the DNS answer contains MX records, lookup returns valid
\* with the hosts of the records by ascending preference, ties in answer order.
C12_AsStated ==
    AnsweredLast =>
        LET answers == mx_call.outs[mx_call.queries].answers
        IN  /\ mx_call.result.status = "valid"
            /\ OrderedHostsOf(mx_call.result.mx_hosts, answers, 1..Len(answers))

\* C12 amended: the records whose host name is empty once the root dot is stripped
\* (the null MX) are dropped; if a record is left, lookup returns valid with the
\* hosts of the records left by ascending preference, ties in answer order; if
\* none is left, it returns mx_missing with no hosts.
C12_SortedHosts ==
    AnsweredLast =>
        LET answers == mx_call.outs[mx_call.queries].answers
            kept == {i \in 1..Len(answers) : RStripDot(answers[i].exchange) # <<>>}
        IN  IF kept # {}
            THEN /\ mx_call.result.status = "valid"
                 /\ OrderedHostsOf(mx_call.result.mx_hosts, answers, kept)
            ELSE /\ mx_call.result.status = "mx_missing"
                 /\ mx_call.result.mx_hosts = <<>>

\* an answer that lists (20, mx2) before (10, mx1) gave [mx1, mx2]
C12_Witness ==
    /\ AnsweredLast
    /\ mx_call.outs[mx_call.queries].answers =
          <<MxRecord(20, <<"mx2", ".">>), MxRecord(10, <<"mx1", ".">>)>>
    /\ mx_call.result.status = "valid"
    /\ mx_call.result.mx_hosts = <<<<"mx1">>, <<"mx2">>>>

\* C13: lookup never raises: whatever DNS does on each attempt (records, NXDOMAIN,
\* no answer, no nameservers, timeout, any other DNS error) and whatever
\* dns_retries is, lookup returns an MXLookupResult for the domain asked whose
\* status is valid, domain_missing or mx_missing; a failure has no hosts and says
\* what happened in its detail.
C13_LookupNeverRaises ==
    mx_call # None =>
        /\ mx_call.result # Raised
        /\ mx_call.result.domain = mx_call.domain
        /\ mx_call.result.status \in {"valid", "domain_missing", "mx_missing"}
        /\ mx_call.result.status = "valid" <=> mx_call.result.mx_hosts # <<>>
        /\ mx_call.result.detail # <<>>

\* a lookup whose first query timed out and whose second hit another DNS error
\* (YXDOMAIN) returned mx_missing with the error in its detail
C13_Witness ==
    /\ mx_call # None
    /\ mx_call.queries = 2
    /\ mx_call.outs[1] = [kind |-> "raise", exc |-> "Timeout"]
    /\ mx_call.outs[2] = [kind |-> "raise", exc |-> "YXDOMAIN"]
    /\ mx_call.result.status = "mx_missing"
    /\ mx_call.result.detail = DetailDnsError("YXDOMAIN")

\* the four statuses of an SMTPCheckResult
SmtpStatuses == {"deliverable", "undeliverable", "tempfail", "unknown"}

\* the step is one _verify_with_host call of the running verify
AttemptStep == v_pc = "attempt" /\ now' = now /\ v_conn' # None

\* C14: verify never raises.  A conversation that ends in an exception (timeout,
\* connect error, disconnect, any other socket error) at whatever step gives no
\* result by itself: the attempt is noted as failed, the host is marked in the
\* cooldown table (ork, cooldown > 0), and verify retries the host or falls back to
\* the next candidate; when verify returns, its result has one of the four statuses.
C14_VerifyNeverRaises ==
    [][/\ v_pc' # "raised"
       /\ v_pc' = "done" => v_result'.status \in SmtpStatuses
       /\ (AttemptStep /\ v_conn'.clause # "none") =>
             LET host == HostCandidates(v_mx_hosts)[v_idx]
             IN  /\ v_conn'.ret = None
                 /\ v_result' = None
                 /\ v_errors' = Append(v_errors, FailNote(host, v_attempt))
                 /\ (impl = "ork" /\ host_failure_cooldown_sec > 0)
                       => /\ host \in DOMAIN _host_unavailable_until'
                          /\ _host_unavailable_until'[host] = now + host_failure_cooldown_sec
                 /\ IF v_attempt < retry_attempts
                    THEN v_pc' = "attempt" /\ v_attempt' = v_attempt + 1 /\ v_idx' = v_idx
                    ELSE v_pc' = "host" /\ v_idx' = v_idx + 1]_vars

\* verify returned deliverable from its second host after an attempt on the first
\* ended in a socket error and marked it
C14_Witness ==
    /\ v_pc = "done"
    /\ v_result.status = "deliverable"
    /\ \E i \in 1..Len(v_events) :
          /\ v_events[i].ev = "connect"
          /\ v_events[i].clause = "oserror"
          /\ v_events[i].host = <<"mx1">>
    /\ v_conn.host = <<"mx2">>
    /\ <<"mx1">> \in DOMAIN _host_unavailable_until

\* the commands of one connection up to MAIL FROM: EHLO, then STARTTLS and a
\* second EHLO if the upgrade is tried
OpeningCommands ==
    {<<"EHLO">>, <<"EHLO", "STARTTLS">>, <<"EHLO", "STARTTLS", "EHLO">>}

\* the command sequences a connection may consist of
AllowedCommands ==
    {<<>>} \cup
    {o \o m \o q : o \in OpeningCommands,
                   m \in {<<>>, <<"MAIL FROM">>, <<"MAIL FROM", "RCPT TO">>},
                   q \in {<<>>, <<"QUIT">>}}

\* C15: DATA is never sent: on every connection the commands are EHLO, STARTTLS
\* and a second EHLO only when the upgrade is enabled and advertised, MAIL FROM,
\* RCPT TO, and the closing QUIT, in this order; nothing but QUIT follows RCPT TO.
C15_NoData ==
    c_out # None =>
        /\ \A k \in 1..Len(c_out.cmds) : c_out.cmds[k] # "DATA"
        /\ c_out.cmds \in AllowedCommands
        /\ Contains(c_out.cmds, "STARTTLS")
              => (try_starttls /\ c_script.ehlo.kind = "reply" /\ c_script.ehlo.starttls)

\* a connection on which the recipient was accepted: the full conversation with
\* the upgrade, ended by QUIT
C15_Witness ==
    /\ c_out # None
    /\ c_out.cmds = <<"EHLO", "STARTTLS", "EHLO", "MAIL FROM", "RCPT TO", "QUIT">>
    /\ c_out.ret # None
    /\ c_out.ret.status = "deliverable"

\* the upgrade was tried on the connection and failed: the server answered
\* STARTTLS with a code other than 220, or the TLS handshake raised
UpgradeFailed ==
    /\ try_starttls
    /\ c_script.connect.kind = "reply"
    /\ c_script.ehlo.kind = "reply"
    /\ c_script.ehlo.starttls
    /\ c_script.starttls.kind = "reply"
    /\ \/ c_script.starttls.code # 220
       \/ c_script.handshake.kind = "raise"

\* C16: a failed STARTTLS upgrade (the command refused, or the TLS handshake
\* failing) is swallowed: the same connection goes on to MAIL FROM, and the
\* attempt fails or the host is marked unavailable only for what happens from
\* MAIL FROM on.
C16_StartTlsNotFatal ==
    (c_out # None /\ UpgradeFailed) =>
        /\ Contains(c_out.cmds, "MAIL FROM")
        /\ c_out.ret = None => "mail" \in c_out.used

\* the server answered MAIL FROM on the connection
MailReplied ==
    /\ c_out # None
    /\ "mail" \in c_out.used
    /\ c_script.mail.kind = "reply"

\* the result of smtp_handshake.py:101-105 for the scripted MAIL FROM reply
MailFromRejection ==
    SMTPCheckResult("unknown",
        <<DetailMailFromRejected, ToString(c_script.mail.code), " ">>
            \o _decode(ReplyText),
        c_script.mail.code)

\* C17: RCPT TO is sent on a connection exactly when MAIL FROM was answered with
\* a code below 500; a MAIL FROM reply of 500 or more ends the call with the
\* unknown result carrying the rejection detail and that code, no RCPT TO, and
\* the host not marked unavailable.
C17_MailFromGate ==
    c_out # None =>
        /\ Contains(c_out.cmds, "RCPT TO") <=> (MailReplied /\ c_script.mail.code < 500)
        /\ (MailReplied /\ c_script.mail.code >= 500) =>
              /\ c_out.ret = MailFromRejection
              /\ c_out.clause = "none"

\* the server answered RCPT TO on the connection
RcptReplied ==
    /\ c_out # None
    /\ "rcpt" \in c_out.used
    /\ c_script.rcpt.kind = "reply"

\* C18: once a host answers RCPT TO with a reply code, the classification of
\* that reply is what the call returns: the attempt is not a failed one, so
\* verify returns it with no further attempt and no later host.
C18_RcptReplyTerminal ==
    RcptReplied =>
        /\ c_out.ret = _interpret_rcpt_response(c_script.rcpt.code, ReplyText)
        /\ c_out.clause = "none"

\* check_emails has reached an address whose domain the resolver of this batch
\* looked up before with a DNS timeout or unreachable-nameserver result
AtDomainFailedBefore ==
    /\ b_pc = "loop"
    /\ b_i <= Len(b_emails)
    /\ is_valid_email_format(b_emails[b_i])
    /\ \E k \in 1..Len(b_log) :
          /\ b_log[k].ev = "lookup"
          /\ b_log[k].name = extract_domain(b_emails[b_i])
    /\ extract_domain(b_emails[b_i]) \in DOMAIN mx_cache
    /\ mx_cache[extract_domain(b_emails[b_i])].detail \in TransientMarkers

\* C19: within one batch a DNS timeout or unreachable-nameserver result is not
\* kept: when a later address of the same domain is reached, its lookup issues a
\* new DNS query instead of returning the earlier failure.
C19_TransientRequeried ==
    AtDomainFailedBefore =>
        \A o \in DnsOutcomes :
            pot_lookup(extract_domain(b_emails[b_i]), <<o>>).queries = 1

\* the k-th query of the last lookup reported that the domain does not exist or
\* that it has no MX answer
TerminalAt(k) ==
    /\ mx_call.outs[k].kind = "raise"
    /\ mx_call.outs[k].exc \in {"NXDOMAIN", "NoAnswer"}

\* the result lookup gives for the terminal outcome of the k-th query
TerminalResult(k) ==
    IF mx_call.outs[k].exc = "NXDOMAIN"
    THEN MXLookupResult(mx_call.domain, "domain_missing", <<>>, DetailDomainMissing)
    ELSE MXLookupResult(mx_call.domain, "mx_missing", <<>>, DetailMxMissing)

\* C20: a query reporting a missing domain or no MX answer ends the lookup on
\* whichever attempt it happens and whatever dns_retries is: the result is
\* domain_missing or mx_missing, no further query is issued, no sleep follows
\* (the only sleeps are those of the earlier retried attempts), and the result
\* is in the cache.
C20_TerminalNotRetried ==
    mx_call # None =>
        \A k \in 1..Len(mx_call.outs) :
            TerminalAt(k) =>
                /\ k = Len(mx_call.outs)
                /\ mx_call.queries = k
                /\ mx_call.sleeps = k - 1
                /\ mx_call.result = TerminalResult(k)
                /\ mx_call.domain \in DOMAIN mx_cache
                /\ mx_cache[mx_call.domain] = mx_call.result

\* a lookup with dns_retries = 2 whose first query timed out and whose second
\* query reported a missing domain
C20_Witness ==
    /\ mx_call # None
    /\ dns_retries = 2
    /\ Len(mx_call.outs) = 2
    /\ mx_call.outs[1].kind = "raise"
    /\ mx_call.outs[1].exc = "Timeout"
    /\ TerminalAt(2)
    /\ mx_call.result.status = "domain_missing"
    /\ mx_call.sleeps = 1

\* self.dns_retries = max(1, dns_retries)
QueryBudget == IF dns_retries > 1 THEN dns_retries ELSE 1

\* the k-th query of the last lookup found no reachable nameserver or timed out
TransientAt(k) ==
    /\ mx_call.outs[k].kind = "raise"
    /\ mx_call.outs[k].exc \in {"NoNameservers", "Timeout", "LifetimeTimeout"}

\* the detail that marks the kind of the transient failure of the k-th query
TransientMarker(k) ==
    IF mx_call.outs[k].exc = "NoNameservers" THEN DetailNoNameservers ELSE DetailDnsTimeout

\* C21: a lookup that goes to DNS issues at most max(1, dns_retries) queries and
\* returns whatever the queries do (it terminates); it sleeps once between two
\* attempts and never after the last; when every attempt found no nameserver or
\* timed out, the whole budget is used and the result is mx_missing with the
\* marker of the last attempt's failure, which is not cached.
C21_BoundedRetries ==
    /\ \A outs \in [1..QueryBudget -> DnsOutcomes] :
          _lookup_uncached(<<"d", ".", "c">>, outs) # Starved
    /\ (mx_call # None /\ mx_call.queries > 0) =>
          /\ mx_call.queries <= QueryBudget
          /\ mx_call.sleeps = mx_call.queries - 1
          /\ (\A k \in 1..Len(mx_call.outs) : TransientAt(k)) =>
                /\ mx_call.queries = QueryBudget
                /\ mx_call.result =
                      MXLookupResult(mx_call.domain, "mx_missing", <<>>,
                                     TransientMarker(Len(mx_call.outs)))
                /\ mx_call.result.detail \in _non_cacheable_details
                /\ mx_call.domain \notin DOMAIN mx_cache

\* a lookup with dns_retries = 2 whose first query timed out and whose second
\* found no reachable nameserver
C21_Witness ==
    /\ mx_call # None
    /\ dns_retries = 2
    /\ mx_call.queries = 2
    /\ mx_call.sleeps = 1
    /\ mx_call.outs[1].kind = "raise"
    /\ mx_call.outs[1].exc = "Timeout"
    /\ TransientAt(2)
    /\ mx_call.result.detail = DetailNoNameservers

\* the shape every MXLookupResult has: valid exactly with a non-empty host list,
\* and no empty host name in the list
MxWellFormed(r) ==
    /\ r # Raised
    /\ r.status = "valid" <=> r.mx_hosts # <<>>
    /\ \A k \in 1..Len(r.mx_hosts) : r.mx_hosts[k] # <<>>

\* the hosts of r are the exchange names of the answer's records that are not
\* empty once the root dot is stripped, one per such record; with no such record
\* r is mx_missing with no hosts
MxDropsEmpty(r, answers) ==
    LET kept == {i \in 1..Len(answers) : RStripDot(answers[i].exchange) # <<>>}
    IN  /\ Len(r.mx_hosts) = Cardinality(kept)
        /\ \A i \in kept :
              \E k \in 1..Len(r.mx_hosts) : r.mx_hosts[k] = RStripDot(answers[i].exchange)
        /\ kept = {} => (r.status = "mx_missing" /\ r.mx_hosts = <<>>)

\* C22: every result of lookup, of the ork resolver (from DNS or from the cache)
\* and of the pot resolver, is valid exactly when its host list is non-empty and
\* lists no empty host name; the records whose exchange name is empty (the null
\* MX ".") are dropped, and an answer whose records are all dropped gives
\* mx_missing with an empty host list.
C22_ValidIffHosts ==
    /\ \A o \in DnsOutcomes :
          LET r == pot_lookup_uncached(<<"d", ".", "c">>, o)
          IN  /\ MxWellFormed(r)
              /\ o.kind = "answer" => MxDropsEmpty(r, o.answers)
    /\ mx_call # None =>
          /\ MxWellFormed(mx_call.result)
          /\ AnsweredLast =>
                MxDropsEmpty(mx_call.result, mx_call.outs[mx_call.queries].answers)

\* the answer (0, "."), (10, "mx1.") gave valid with the one host mx1
C22_Witness ==
    /\ AnsweredLast
    /\ mx_call.outs[mx_call.queries].answers =
          <<MxRecord(0, <<".">>), MxRecord(10, <<"mx1", ".">>)>>
    /\ mx_call.result.status = "valid"
    /\ mx_call.result.mx_hosts = <<<<"mx1">>>>

\* the number of candidate positions of the running verify call
CandidateCount ==
    IF max_mx_tries >= 1
    THEN (IF Len(v_mx_hosts) < max_mx_tries THEN Len(v_mx_hosts) ELSE max_mx_tries)
    ELSE (IF Len(v_mx_hosts) < 1 THEN Len(v_mx_hosts) ELSE 1)

\* the step skips the host at position v_idx because of its cooldown
SkipStep ==
    /\ v_pc = "host"
    /\ Len(v_events') = Len(v_events) + 1
    /\ v_events'[Len(v_events')].ev = "skip"
    /\ v_events'[Len(v_events')].host = v_mx_hosts[v_idx]

\* the step is the last of retry_attempts failed attempts in a row on the host
\* at position v_idx
LastFailureStep ==
    /\ v_pc = "attempt"
    /\ v_attempt = retry_attempts
    /\ v_conn'.ret = None
    /\ Len(v_errors') >= retry_attempts
    /\ \A a \in 1..retry_attempts :
          v_errors'[Len(v_errors') - retry_attempts + a] = FailNote(v_mx_hosts[v_idx], a)

\* what every step of a running verify call does to the position in the list
HostOrderStep ==
    v_pc \in {"host", "attempt"} =>
        /\ v_pc' = "attempt" => v_idx' \in 1..CandidateCount
        /\ AttemptStep =>
              /\ v_idx \in 1..CandidateCount
              /\ v_conn'.host = v_mx_hosts[v_idx]
        /\ (v_idx' # v_idx /\ v_pc' \in {"host", "attempt"}) =>
              /\ v_idx' = v_idx + 1
              /\ SkipStep \/ LastFailureStep \/ retry_attempts <= 0

\* C23: verify walks the hosts in list order over the first max_mx_tries
\* positions of mx_hosts only: a connection is made only to the host at the
\* current position, which is within the candidates, and the position moves on
\* by one, only when the host was skipped for cooldown or failed retry_attempts
\* attempts in a row.
C23_HostOrder == [][HostOrderStep]_vars

\* with max_mx_tries = 2 and retry_attempts = 2 the second host of <<mx1, mx2>>
\* is being tried after two failed attempts on the first
C23_Witness ==
    /\ v_pc = "attempt"
    /\ v_idx = 2
    /\ retry_attempts = 2
    /\ v_mx_hosts = <<<<"mx1">>, <<"mx2">>>>
    /\ v_errors = <<FailNote(<<"mx1">>, 1), FailNote(<<"mx1">>, 2)>>

\* the exceptions that are failures of the transport: a timeout, a refused or
\* failed connection, a dropped connection, a socket or TLS error
TransportFailures ==
    {"TimeoutError", "ConnectionRefusedError", "SMTPConnectError",
     "SMTPServerDisconnected", "SSLError"}

\* C24: a connection attempt hands the host to _mark_host_unavailable, with the
\* reason of the failure, exactly when it failed at the transport level (timeout,
\* connect error, server disconnect, socket error); nothing else marks a host,
\* so a host whose connections never failed that way gets no cooldown entry.
C24_MarkOnlyTransport ==
    (c_out # None /\ impl = "ork") =>
        /\ c_out.exc \in TransportFailures =>
              (c_out.ret = None /\ c_out.reason # <<>>)
        /\ c_out.reason # <<>> => c_out.exc \in TransportFailures

\* the step leaves the entries of every host other than h as they are
OtherEntriesKept(h) ==
    \A g \in Hosts \ {h} :
        /\ g \in DOMAIN _host_unavailable_until <=> g \in DOMAIN _host_unavailable_until'
        /\ g \in DOMAIN _host_unavailable_until =>
              /\ _host_unavailable_until'[g] = _host_unavailable_until[g]
              /\ _host_unavailable_reason'[g] = _host_unavailable_reason[g]

\* the step goes on to the connection attempts on the host at v_idx, with no
\* note added (with retry_attempts >= 1 the first attempt is next)
GoesOnToAttempt ==
    /\ v_errors' = v_errors
    /\ retry_attempts >= 1 => (v_pc' = "attempt" /\ v_idx' = v_idx /\ v_attempt' = 1)

\* what a step does to the cooldown table when verify consults it for host h
LazyPurgeStep(h) ==
    /\ (AtHost(h) /\ now' = now /\ h \in DOMAIN _host_unavailable_until
                  /\ now >= _host_unavailable_until[h]) =>
          /\ h \notin DOMAIN _host_unavailable_until'
          /\ h \notin DOMAIN _host_unavailable_reason'
          /\ OtherEntriesKept(h)
          /\ GoesOnToAttempt
    /\ (AtHost(h) /\ now' = now /\ h \notin DOMAIN _host_unavailable_until) =>
          /\ UNCHANGED <<_host_unavailable_until, _host_unavailable_reason>>
          /\ GoesOnToAttempt
    /\ (h \in DOMAIN _host_unavailable_until /\ h \notin DOMAIN _host_unavailable_until') =>
          (AtHost(h) /\ now >= _host_unavailable_until[h])

\* C25: cooldown entries are purged lazily: when verify consults the table for a
\* host whose entry has expired, the entry (timestamp and reason) is removed and
\* the host is attempted in that call; the entries of the other hosts, expired
\* or not, stay; an entry is removed by nothing else; a host with no entry goes
\* to its connection attempts.
C25_LazyPurge == [][\A h \in Hosts : LazyPurgeStep(h)]_vars

\* the expired entry of mx1 has just been purged and mx1 is about to be tried,
\* while the expired entry of mx2, not consulted, is still in the table
C25_Witness ==
    /\ v_pc = "attempt"
    /\ v_attempt = 1
    /\ v_events # <<>>
    /\ v_events[Len(v_events)].ev = "purge"
    /\ v_events[Len(v_events)].host = <<"mx1">>
    /\ <<"mx1">> \notin DOMAIN _host_unavailable_until
    /\ <<"mx2">> \in DOMAIN _host_unavailable_until
    /\ now >= _host_unavailable_until[<<"mx2">>]

\* the notes of s_errors that the detail is made of: the last four, or all of
\* them when there are fewer
RecentNotes ==
    LET n == Len(s_errors)
        kept == IF n < 4 THEN n ELSE 4
    IN  [k \in 1..kept |-> s_errors[n - kept + k]]

\* C26: when the candidates are exhausted with n >= 1 notes and no result,
\* verify returns unknown with no reply code and a detail made of the most recent
\* min(4, n) notes, in the order they were accumulated (followed by the port-25
\* hint or by nothing); older notes are left out.  With no note at all the
\* detail is the could-not-check text.
C26_LastFourNotes ==
    s_out # None =>
        /\ s_out.status = "unknown"
        /\ s_out.code = NoCode
        /\ IF s_errors = <<>>
           THEN s_out.detail = DetailCouldNotCheck
           ELSE \E suffix \in {<<>>, HintPort25} :
                   s_out.detail = Join(RecentNotes, <<"; ">>) \o suffix

\* six notes were accumulated (three failed attempts on each of two hosts) and
\* the detail holds the last four of them
C26_Witness ==
    /\ s_out # None
    /\ impl = "ork"
    /\ Len(s_errors) = 6
    /\ s_out.detail = FailNote(<<"mx1">>, 3) \o <<"; ">> \o FailNote(<<"mx2">>, 1)
                      \o <<"; ">> \o FailNote(<<"mx2">>, 2)
                      \o <<"; ">> \o FailNote(<<"mx2">>, 3)

\* C27: between the processing of two consecutive addresses check_emails sleeps
\* the pause exactly once, whatever the earlier address was (probed, failed in
\* the resolver, or of bad format): every address that has its result and is not
\* the last has exactly one sleep.
C27_PauseBetween ==
    b_pc \in {"loop", "verify", "done"} =>
        \A i \in 1..Len(b_results) :
            i < Len(b_emails) => Cardinality(CallsFor("sleep", i)) = 1

\* how far the running verify call is from its return: it goes down with every
\* step of the call
Measure ==
    IF v_pc \in {"host", "attempt"}
    THEN (CandidateCount - v_idx + 1) * ((IF retry_attempts > 0 THEN retry_attempts ELSE 0) + 2)
         + 1 - (IF v_pc = "attempt" THEN v_attempt ELSE 0)
    ELSE 0

\* the running call has made no more connection attempts than its budget, and
\* the attempt in progress on a host is within retry_attempts
AttemptBudget ==
    v_pc \in {"host", "attempt", "done"} =>
        /\ Cardinality(ConnectEvents)
              <= (IF retry_attempts > 0 THEN retry_attempts ELSE 0) * CandidateCount
        /\ v_pc = "attempt" => v_attempt \in 1..retry_attempts

\* every sleep of the running call follows a failed attempt on a host and is
\* followed by the next attempt on that host (made already or about to be): none
\* after the last attempt on a host, none for a skipped host
SleepsOnlyBetween ==
    \A k \in 1..Len(v_events) :
        v_events[k].ev = "sleep" =>
            /\ k > 1
            /\ v_events[k - 1].ev = "connect"
            /\ v_events[k - 1].host = v_events[k].host
            /\ v_events[k - 1].clause # "none"
            /\ IF k < Len(v_events)
               THEN /\ v_events[k + 1].ev = "connect"
                    /\ v_events[k + 1].host = v_events[k].host
               ELSE /\ v_pc = "attempt"
                    /\ v_attempt >= 2
                    /\ v_mx_hosts[v_idx] = v_events[k].host

\* what every step does to a verify call
BoundedStep ==
    /\ (v_pc \in {"host", "attempt"} /\ frameVars' # frameVars) => Measure' < Measure
    /\ AttemptBudget'
    /\ SleepsOnlyBetween'
    /\ AttemptStep => (v_conn'.attempt = v_attempt /\ v_attempt <= retry_attempts)

\* C28: every verify call terminates (each of its steps brings it nearer to its
\* return), makes at most retry_attempts attempts on each candidate host, hence at
\* most retry_attempts x min(|mx_hosts|, max_mx_tries) in all, and sleeps the
\* retry delay only between two consecutive attempts on one host: never after
\* the last attempt on a host and never for a host skipped by cooldown.
C28_BoundedVerify == [][BoundedStep]_vars

\* a call with retry_attempts = 2 over two hosts returned after the four
\* attempts of its budget, with one sleep between the two attempts on each host
C28_Witness ==
    /\ v_pc = "done"
    /\ retry_attempts = 2
    /\ Len(v_events) = 6
    /\ \A k \in {1, 3, 4, 6} : v_events[k].ev = "connect"
    /\ \A k \in {2, 5} : v_events[k].ev = "sleep"
    /\ \A k \in 1..3 : v_events[k].host = <<"mx1">>
    /\ \A k \in 4..6 : v_events[k].host = <<"mx2">>

\* the positions of command cmd among the commands of the connection
CmdPositions(cmd) == {k \in 1..Len(c_out.cmds) : c_out.cmds[k] = cmd}

\* the server accepted STARTTLS and the TLS handshake went through
UpgradeSucceeded ==
    /\ "handshake" \in c_out.used
    /\ c_script.starttls.kind = "reply"
    /\ c_script.starttls.code = 220
    /\ c_script.handshake.kind = "reply"

\* C29: on every connection the commands follow connect, EHLO, (STARTTLS, EHLO)?,
\* MAIL FROM, RCPT TO: nothing is sent unless the connection was made and EHLO
\* comes first; MAIL FROM only after an EHLO, RCPT TO only after a MAIL FROM;
\* STARTTLS only when the upgrade is enabled and the EHLO reply advertised it; a
\* successful STARTTLS is followed at once by a second EHLO, before any MAIL
\* FROM; MAIL FROM, RCPT TO and STARTTLS are sent at most once.
C29_CommandOrder ==
    c_out # None =>
        /\ c_out.cmds # <<>> => (c_script.connect.kind = "reply" /\ c_out.cmds[1] = "EHLO")
        /\ \A k \in CmdPositions("MAIL FROM") : \E j \in CmdPositions("EHLO") : j < k
        /\ \A k \in CmdPositions("RCPT TO") : \E j \in CmdPositions("MAIL FROM") : j < k
        /\ CmdPositions("STARTTLS") # {} =>
              /\ try_starttls
              /\ c_script.ehlo.kind = "reply"
              /\ c_script.ehlo.starttls
        /\ UpgradeSucceeded =>
              \A k \in CmdPositions("STARTTLS") :
                  /\ k < Len(c_out.cmds)
                  /\ c_out.cmds[k + 1] = "EHLO"
                  /\ \A m \in CmdPositions("MAIL FROM") : m > k + 1
        /\ Cardinality(CmdPositions("RCPT TO")) <= 1
        /\ Cardinality(CmdPositions("MAIL FROM")) <= 1
        /\ Cardinality(CmdPositions("STARTTLS")) <= 1

\* a connection upgraded with STARTTLS on which the recipient was refused
C29_Witness ==
    /\ c_out # None
    /\ UpgradeSucceeded
    /\ c_out.cmds = <<"EHLO", "STARTTLS", "EHLO", "MAIL FROM", "RCPT TO", "QUIT">>
    /\ c_out.ret # None
    /\ c_out.ret.status = "undeliverable"

\* the result of the address at position i reports a failed connection attempt
\* on host h (the note of smtp_handshake.py:42 of pot, 61 of ork)
FailedWhileProbing(i, h) ==
    \E k \in 1..(Len(b_results[i].smtp_detail) - 1) :
        /\ <<b_results[i].smtp_detail[k]>> = h
        /\ b_results[i].smtp_detail[k + 1] = ": attempt "

\* C30: within one batch, once a mail host has failed at the transport level
\* while one address was probed, the probe of a later address whose candidates
\* name that host makes no connection attempt to it (the batch lies within the
\* cooldown window).
C30_BatchCooldown ==
    b_pc = "verify" =>
        \A i \in 1..Len(b_results) : \A h \in Hosts :
            FailedWhileProbing(i, h) =>
                \A k \in 1..Len(v_events) :
                    v_events[k].ev = "connect" => v_events[k].host # h

\* what a failed attempt that is not the last on its host does: verify stays on
\* the host for the next attempt, with only the failed-attempt note added,
\* although (ork, cooldown > 0) the failure has just put the host in cooldown
RetryInCooldownStep ==
    (AttemptStep /\ v_conn'.ret = None /\ v_attempt < retry_attempts) =>
        /\ v_pc' = "attempt"
        /\ v_idx' = v_idx
        /\ v_attempt' = v_attempt + 1
        /\ v_errors' = Append(v_errors, FailNote(v_mx_hosts[v_idx], v_attempt))
        /\ (impl = "ork" /\ host_failure_cooldown_sec > 0) =>
              /\ v_mx_hosts[v_idx] \in DOMAIN _host_unavailable_until'
              /\ now < _host_unavailable_until'[v_mx_hosts[v_idx]]

\* the table is consulted (an entry purged, a host skipped) only at the head of
\* the host loop, never between the attempts on a host
ConsultedAtHeadStep ==
    (v_pc = "attempt" /\ Len(v_events') > Len(v_events)) =>
        \A k \in (Len(v_events) + 1)..Len(v_events') :
            v_events'[k].ev \in {"connect", "sleep"}

\* C31: within one verify call the cooldown table is consulted once per
\* candidate host, before its first attempt: when attempt k < retry_attempts on
\* a host fails at the transport level and puts the host in cooldown, the
\* attempts k+1..retry_attempts on that host are still made in the same call,
\* the unexpired entry notwithstanding.
C31_RetryDespiteCooldown == [][RetryInCooldownStep /\ ConsultedAtHeadStep]_vars

\* the table was empty when the call began; the first attempt on mx1 failed and
\* marked it, and the second attempt on mx1 has been made while the entry is
\* unexpired
C31_Witness ==
    /\ v_empty0
    /\ v_conn # None
    /\ v_conn.attempt = 2
    /\ v_conn.host = <<"mx1">>
    /\ Len(v_events) >= 3
    /\ v_events[1] = Event("connect", <<"mx1">>, 0, "timeout")
    /\ v_events[2].ev = "sleep"
    /\ v_events[3].ev = "connect"
    /\ <<"mx1">> \in DOMAIN _host_unavailable_until
    /\ now < _host_unavailable_until[<<"mx1">>]

\* an attempt that gives a classified result ends the call with that result and
\* leaves the cooldown table as it is
ResultKeepsEntryStep ==
    (AttemptStep /\ v_conn'.ret # None /\ v_conn'.ret # Raised) =>
        /\ UNCHANGED <<_host_unavailable_until, _host_unavailable_reason>>
        /\ v_pc' = "done"
        /\ v_result' = v_conn'.ret

\* a step removes a cooldown entry only when the entry has expired
OnlyExpiryRemovesStep ==
    \A h \in Hosts :
        (h \in DOMAIN _host_unavailable_until /\ h \notin DOMAIN _host_unavailable_until')
            => now >= _host_unavailable_until[h]

\* a call that reaches a host with an unexpired entry skips it
WindowSkipStep ==
    \A h \in Hosts :
        (AtHost(h) /\ now' = now /\ h \in DOMAIN _host_unavailable_until
                   /\ now < _host_unavailable_until[h])
            => (v_idx' = v_idx + 1 /\ v_pc' = "host" /\ Len(v_errors') = Len(v_errors) + 1)

\* C32: only expiry removes a cooldown entry: when an attempt on a host failed
\* at the transport level and a later attempt on that host in the same call gives
\* a classified result, the entry stays, so a verify call within the window
\* skips the host although its last handshake succeeded.
C32_OnlyExpiryRemoves ==
    [][ResultKeepsEntryStep /\ OnlyExpiryRemovesStep /\ WindowSkipStep]_vars

\* the table was empty when the call began; the first attempt on mx1 timed out,
\* the second found the address deliverable, and mx1 still has its unexpired entry
C32_Witness ==
    /\ v_empty0
    /\ v_pc = "done"
    /\ v_result.status = "deliverable"
    /\ v_conn.attempt = 2
    /\ v_conn.host = <<"mx1">>
    /\ v_events[1] = Event("connect", <<"mx1">>, 0, "timeout")
    /\ <<"mx1">> \in DOMAIN _host_unavailable_until
    /\ now < _host_unavailable_until[<<"mx1">>]

\* the exception is one of the SMTP library's own, and neither a connect error
\* nor a server disconnect
ProtocolException(exc) ==
    /\ exc # "none"
    /\ "SMTPException" \in SmtpBases(exc)
    /\ "SMTPConnectError" \notin SmtpBases(exc)
    /\ "SMTPServerDisconnected" \notin SmtpBases(exc)

\* C33: when the conversation raises an exception of the SMTP library that is
\* neither a connect error nor a server disconnect, _verify_with_host returns
\* status unknown with the "SMTP error" detail instead of None (so verify returns
\* it at once) and the host is not handed to _mark_host_unavailable.
C33_ProtocolErrorResult ==
    (c_out # None /\ ProtocolException(c_out.exc)) =>
        /\ c_out.ret = SMTPCheckResult("unknown", <<DetailSmtpError, "<exc>">>, NoCode)
        /\ c_out.clause = "smtp"
        /\ c_out.reason = <<>>

ConclusiveStatuses == {"deliverable", "undeliverable", "tempfail"}

\* C34: in every result check_emails has built, a conclusive SMTP status
\* (deliverable, undeliverable, tempfail) comes only with domain status valid
\* and a non-empty list of MX hosts; a result whose domain status is
\* domain_missing or mx_missing has no MX hosts and SMTP status unknown.
C34_ConclusiveNeedsMx ==
    \A k \in 1..Len(b_results) :
        LET r == b_results[k]
        IN  /\ r.smtp_status \in ConclusiveStatuses =>
                  (r.domain_status = "valid" /\ r.mx_hosts # <<>>)
            /\ r.domain_status \in {"domain_missing", "mx_missing"} =>
                  (r.mx_hosts = <<>> /\ r.smtp_status = "unknown")

\* a finished batch of two addresses: one of bad format, one probed to a
\* conclusive status
C34_Witness ==
    /\ b_pc = "done"
    /\ Len(b_results) = 2
    /\ b_results[1].smtp_detail = DetailBadFormat
    /\ b_results[2].smtp_status \in ConclusiveStatuses
    /\ b_results[2].domain_status = "valid"

\* the commands started and not finished: the worker is about to spawn the
\* child, or the child is alive
Unfinished == {w \in Workers : w_pc[w] = "popen" \/ child[w] = "alive"}

AtMostOneChild == Cardinality({c \in Workers : child[c] = "alive"}) <= 1

\* a run() call that ends while a command is unfinished ends with RuntimeError
\* and starts no worker
BusyRunRaisesStep ==
    (g_pc \in {"idle", "run_poll", "run_start"} /\ g_pc' \in {"idle", "run_start"}
        /\ g_pc' # g_pc /\ Unfinished # {}) =>
            (g_pc' = "idle" /\ g_last' = Ended("run", "RuntimeError") /\ w_pc' = w_pc)

\* a worker that sets self._proc to None clears its own child's handle
OwnHandleOnlyStep ==
    \A w \in Workers :
        (w_pc[w] = "finally" /\ w_pc'[w] = "done") => _proc \in {NoProc, w}

\* C35: ProcessRunner runs at most one child at a time under every interleaving
\* of the GUI thread and the workers: run() while an earlier command is started
\* and unfinished raises RuntimeError("A process is already running") and starts
\* nothing, two children are never alive at once, and a worker never clears the
\* process handle of another worker.
C35_OneChildAtATime ==
    [][AtMostOneChild' /\ BusyRunRaisesStep /\ OwnHandleOnlyStep]_vars

\* the raw strings of a call in the order collect_emails visits them
RawInOrder == file_emails \o cli_emails

\* the position in RawInOrder of the first string that normalizes to email
FirstAt(email) ==
    CHOOSE k \in 1..Len(RawInOrder) :
        /\ normalize_email(RawInOrder[k]) = email
        /\ \A j \in 1..(k - 1) : normalize_email(RawInOrder[j]) # email

\* C36: collect_emails returns the normalized (trimmed, lower-cased) non-empty
\* inputs without duplicates, in the order of first occurrence with the strings
\* of the file ahead of those of the command line; applying it to its own
\* result gives the result back; a string of bad format is not dropped.
C36_CollectEmails ==
    col_pc = "done" =>
        /\ \A i \in 1..Len(ordered) :
              /\ ordered[i] # <<>>
              /\ Strip(ordered[i]) = ordered[i]
              /\ Lower(ordered[i]) = ordered[i]
        /\ \A i, j \in 1..Len(ordered) : ordered[i] = ordered[j] => i = j
        /\ {ordered[i] : i \in 1..Len(ordered)} =
              {normalize_email(RawInOrder[k]) : k \in 1..Len(RawInOrder)} \ {<<>>}
        /\ \A i, j \in 1..Len(ordered) : i < j => FirstAt(ordered[i]) < FirstAt(ordered[j])
        /\ collect_emails(ordered, <<>>) = ordered
        /\ collect_emails(<<>>, ordered) = ordered
        /\ \A k \in 1..Len(RawInOrder) :
              LET email == normalize_email(RawInOrder[k])
              IN  (email # <<>> /\ ~is_valid_email_format(email)) =>
                      \E i \in 1..Len(ordered) : ordered[i] = email

\* the file gives an address in capitals and a blank string, the command line a
\* string of bad format and the same address padded with white space: the result
\* is the address once, from the file, then the string of bad format
C36_Witness ==
    /\ col_pc = "done"
    /\ file_emails = << <<"u", "@", "D", ".", "c">>, <<" ">> >>
    /\ cli_emails = << <<"u", "d">>, <<" ", "u", "@", "d", ".", "c", "\n">> >>
    /\ ordered = << <<"u", "@", "d", ".", "c">>, <<"u", "d">> >>

\* the two maps have the same keys
SameKeys == DOMAIN _host_unavailable_until = DOMAIN _host_unavailable_reason

\* the step is a connection attempt on h that failed at the transport level
TransportFailureStep(h) ==
    AttemptStep /\ v_conn'.host = h /\ v_conn'.exc \in TransportFailures

\* the step gives h an entry or changes the one it has
EntryWritten(h) ==
    /\ h \in DOMAIN _host_unavailable_until'
    /\ \/ h \notin DOMAIN _host_unavailable_until
       \/ _host_unavailable_until'[h] # _host_unavailable_until[h]
       \/ _host_unavailable_reason'[h] # _host_unavailable_reason[h]

\* C37: the two maps of the cooldown table always have the same key set; the
\* timestamp of a host is the time of its most recent transport failure plus
\* the configured cooldown (it is written by each transport failure and by
\* nothing else); with a cooldown <= 0 both maps stay empty.
C37_CooldownMaps ==
    [][/\ SameKeys'
       /\ \A h \in Hosts :
             /\ (TransportFailureStep(h) /\ impl = "ork" /\ host_failure_cooldown_sec > 0) =>
                    (/\ h \in DOMAIN _host_unavailable_until'
                     /\ _host_unavailable_until'[h] = now + host_failure_cooldown_sec)
             /\ EntryWritten(h) => TransportFailureStep(h)
       /\ host_failure_cooldown_sec <= 0 =>
             (_host_unavailable_until' = EmptyMap /\ _host_unavailable_reason' = EmptyMap)
      ]_vars

=============================================================================
